---- MODULE Spec2Model ----
(***************************************************************************)
(* Model of the timeline generator (testLatest.py): the filename date      *)
(* parser, the title humanizer, the thumbnail cache and the event          *)
(* collector.  File names and every derived string are sequences of        *)
(* one-character strings, so that the regular expressions, the padding,    *)
(* the ISO formatting and the lexicographic comparisons of the code are    *)
(* computed character by character.                                        *)
(***************************************************************************)
EXTENDS Integers, Sequences, FiniteSets, TLC

\* ------------------------------------------------------------------ bounds

\* Largest number of separator-delimited pieces of a generated file name.
MaxChunks == 4
\* Largest number of image files in the images directory.
MaxFiles == 2
\* Largest number of generator runs.
MaxRuns == 2
\* Largest number of edits of source images between the runs.
MaxEdits == 1
\* The most cleanup timers of the overlay that are pending at once.
MaxTimers == 2

\* ------------------------------------------------------------- characters

DigitChars == <<"0", "1", "2", "3", "4", "5", "6", "7", "8", "9">>

\* The regular expression class \d.
Digits == {DigitChars[i] : i \in 1..10}

IsDigit(c) == c \in Digits

\* int() of each decimal digit.
DigitValues == [c \in Digits |-> (CHOOSE i \in 1..10 : DigitChars[i] = c) - 1]

DigitVal(c) == DigitValues[c]

IsSep(c) == c \in {"-", "_"}

LowerChars ==
  <<"a", "b", "c", "d", "e", "f", "g", "h", "i", "j", "k", "l", "m", "n", "o", "p", "q", "r", "s", "t", "u", "v", "w", "x", "y", "z">>
UpperChars ==
  <<"A", "B", "C", "D", "E", "F", "G", "H", "I", "J", "K", "L", "M", "N", "O", "P", "Q", "R", "S", "T", "U", "V", "W", "X", "Y", "Z">>

LowerSet == {LowerChars[i] : i \in 1..26}
UpperSet == {UpperChars[i] : i \in 1..26}

IsLower(c) == c \in LowerSet
IsUpper(c) == c \in UpperSet

\* The position of each letter in the alphabet.
LetterIndex ==
  [c \in LowerSet \cup UpperSet |->
     CHOOSE i \in 1..26 : LowerChars[i] = c \/ UpperChars[i] = c]

\* str.upper() of one character.
Upper(c) == IF IsLower(c) THEN UpperChars[LetterIndex[c]] ELSE c

\* str.lower() of one character.
Lower(c) == IF IsUpper(c) THEN LowerChars[LetterIndex[c]] ELSE c

\* The regular expression class \w.
IsWordChar(c) == IsDigit(c) \/ IsLower(c) \/ IsUpper(c) \/ c = "_"

\* The code point of a character (ord), which orders strings and paths.
Ord(c) ==
  IF IsDigit(c) THEN 48 + DigitVal(c)
  ELSE IF IsUpper(c) THEN 64 + LetterIndex[c]
  ELSE IF IsLower(c) THEN 96 + LetterIndex[c]
  ELSE IF c = " " THEN 32
  ELSE IF c = "'" THEN 39
  ELSE IF c = "-" THEN 45
  ELSE IF c = "." THEN 46
  ELSE IF c = ":" THEN 58
  ELSE 95

\* Python's str comparison a < b: lexicographic by code point.
RECURSIVE StrLess(_, _)
StrLess(a, b) ==
  IF b = <<>> THEN FALSE
  ELSE IF a = <<>> THEN TRUE
  ELSE IF Ord(Head(a)) # Ord(Head(b)) THEN Ord(Head(a)) < Ord(Head(b))
  ELSE StrLess(Tail(a), Tail(b))

AllDigits(s) == \A i \in 1..Len(s) : IsDigit(s[i])

\* int(s) of a run of decimal digits.
RECURSIVE ToInt(_)
ToInt(s) ==
  IF s = <<>> THEN 0
  ELSE 10 * ToInt(SubSeq(s, 1, Len(s) - 1)) + DigitVal(s[Len(s)])

\* str(n) of a natural number.
RECURSIVE ToStr(_)
ToStr(n) ==
  IF n < 10 THEN <<DigitChars[n + 1]>>
  ELSE ToStr(n \div 10) \o <<DigitChars[(n % 10) + 1]>>

\* str.zfill(width) of a run of digits.
RECURSIVE zfill(_, _)
zfill(s, width) == IF Len(s) >= width THEN s ELSE zfill(<<"0">> \o s, width)

\* ------------------------------------------------------------------ dates

\* The absent value (None) of a date, and a date <<year, month, day>>.
NoDate == <<>>

IsLeap(y) == (y % 4 = 0) /\ ((y % 100 # 0) \/ (y % 400 = 0))

DaysInMonth(y, m) ==
  IF m = 2 THEN (IF IsLeap(y) THEN 29 ELSE 28)
  ELSE IF m \in {4, 6, 9, 11} THEN 30
  ELSE 31

\* A date constructor that accepts every day up to 31 in every month.
MakeDate_any_day(y, m, d) ==
  IF y >= 1 /\ y <= 9999 /\ m >= 1 /\ m <= 12 /\ d >= 1 /\ d <= 31
  THEN <<y, m, d>>
  ELSE NoDate

\* datetime(y, m, d) inside try/except ValueError: the date, or None.
MakeDate(y, m, d) ==
  IF y >= 1 /\ y <= 9999 /\ m >= 1 /\ m <= 12 /\ d >= 1 /\ d <= DaysInMonth(y, m)
  THEN <<y, m, d>>
  ELSE NoDate

\* A formatting that does not pad the month and the day to two digits.
isoformat_unpadded(dt) ==
  zfill(ToStr(dt[1]), 4) \o <<"-">> \o ToStr(dt[2]) \o <<"-">> \o ToStr(dt[3])
    \o <<"T", "0", "0", ":", "0", "0", ":", "0", "0">>

\* datetime.isoformat() of a midnight datetime: YYYY-MM-DDT00:00:00.
isoformat(dt) ==
  zfill(ToStr(dt[1]), 4) \o <<"-">> \o zfill(ToStr(dt[2]), 2) \o <<"-">>
    \o zfill(ToStr(dt[3]), 2)
    \o <<"T", "0", "0", ":", "0", "0", ":", "0", "0">>

\* ------------------------------------------------------------- file names

\* The index of the last "." of a name (str.rfind), 0 when there is none.
LastDot(name) ==
  IF \E i \in 1..Len(name) : name[i] = "."
  THEN CHOOSE i \in 1..Len(name) :
         name[i] = "." /\ \A j \in (i + 1)..Len(name) : name[j] # "."
  ELSE 0

\* os.path.splitext(filename)[0]: the name up to its last dot, unless that dot
\* is one of the leading dots of the name.
splitext(filename) ==
  LET dot == LastDot(filename)
  IN IF dot > 0 /\ \E i \in 1..(dot - 1) : filename[i] # "."
     THEN SubSeq(filename, 1, dot - 1)
     ELSE filename

\* pathlib's Path.suffix: from the last dot, which is neither the first nor
\* the last character of the name.
suffix(filename) ==
  LET dot == LastDot(filename)
  IN IF dot > 1 /\ dot < Len(filename)
     THEN SubSeq(filename, dot, Len(filename))
     ELSE <<>>

\* pathlib's Path.stem.
stem(filename) ==
  LET dot == LastDot(filename)
  IN IF dot > 1 /\ dot < Len(filename)
     THEN SubSeq(filename, 1, dot - 1)
     ELSE filename

\* str.lower() of a string.
lower(s) == [i \in 1..Len(s) |-> Lower(s[i])]

\* --------------------------------------------------- the filename patterns

\* What follows a date prefix ending at index e: (?:[-_](.*))?$ matches when
\* the name ends there or a separator follows; the group is the remainder.
TailMatches(name, e) == Len(name) = e \/ (Len(name) > e /\ IsSep(name[e + 1]))

\* rest or "": the group (.*), empty when the optional part did not take part.
TailRest(name, e) ==
  IF Len(name) > e THEN SubSeq(name, e + 2, Len(name)) ELSE <<>>

\* The greedy choice among the widths a regular expression can give its
\* \d{1,2} groups: the widest first group, then the widest second group.
Greedy(ws) ==
  CHOOSE w \in ws :
    \A v \in ws : v[1] < w[1] \/ (v[1] = w[1] /\ v[2] <= w[2])

\* ^(\d{4})[-_](\d{1,2})[-_](\d{1,2})(?:[-_](.*))?$ : the widths <<mm, dd>>
\* with which the pattern matches.
WidthsYMD(name) ==
  {w \in {1, 2} \X {1, 2} :
     /\ Len(name) >= 6 + w[1] + w[2]
     /\ AllDigits(SubSeq(name, 1, 4))
     /\ IsSep(name[5])
     /\ AllDigits(SubSeq(name, 6, 5 + w[1]))
     /\ IsSep(name[6 + w[1]])
     /\ AllDigits(SubSeq(name, 7 + w[1], 6 + w[1] + w[2]))
     /\ TailMatches(name, 6 + w[1] + w[2])}

\* ^(\d{1,2})-(\d{1,2})-(\d{4})(?:[-_](.*))?$ : the widths <<dd, mm>>.
WidthsDMY(name) ==
  {w \in {1, 2} \X {1, 2} :
     /\ Len(name) >= 6 + w[1] + w[2]
     /\ AllDigits(SubSeq(name, 1, w[1]))
     /\ name[1 + w[1]] = "-"
     /\ AllDigits(SubSeq(name, 2 + w[1], 1 + w[1] + w[2]))
     /\ name[2 + w[1] + w[2]] = "-"
     /\ AllDigits(SubSeq(name, 3 + w[1] + w[2], 6 + w[1] + w[2]))
     /\ TailMatches(name, 6 + w[1] + w[2])}

\* ^(\d{1,2})-(\d{4})(?:[-_](.*))?$ : the widths <<mm, 0>>.
WidthsMY(name) ==
  {w \in {1, 2} \X {0} :
     /\ Len(name) >= 5 + w[1]
     /\ AllDigits(SubSeq(name, 1, w[1]))
     /\ name[1 + w[1]] = "-"
     /\ AllDigits(SubSeq(name, 2 + w[1], 5 + w[1]))
     /\ TailMatches(name, 5 + w[1])}

\* ^(\d{4})(?:[-_](.*))?$
MatchesY(name) ==
  /\ Len(name) >= 4
  /\ AllDigits(SubSeq(name, 1, 4))
  /\ TailMatches(name, 4)

\* (19|20)\d{2} matches at index i.
YearAt(s, i) ==
  /\ i + 3 <= Len(s)
  /\ (s[i] = "1" /\ s[i + 1] = "9") \/ (s[i] = "2" /\ s[i + 1] = "0")
  /\ IsDigit(s[i + 2])
  /\ IsDigit(s[i + 3])

\* re.search(r"(19|20)\d{2}", s): the index of the leftmost match, 0 for None.
SearchYear(s) ==
  IF \E i \in 1..Len(s) : YearAt(s, i)
  THEN CHOOSE i \in 1..Len(s) : YearAt(s, i) /\ \A j \in 1..(i - 1) : ~YearAt(s, j)
  ELSE 0

\* m.group(0) of that search.
YearText(s) == SubSeq(s, SearchYear(s), SearchYear(s) + 3)

\* s.startswith(sub)
StartsWith(s, sub) == Len(s) >= Len(sub) /\ SubSeq(s, 1, Len(sub)) = sub

\* A replacement that removes the first occurrence of sub only.
RECURSIVE RemoveFirst(_, _)
RemoveFirst(s, sub) ==
  IF s = <<>> THEN <<>>
  ELSE IF StartsWith(s, sub) THEN SubSeq(s, Len(sub) + 1, Len(s))
  ELSE <<Head(s)>> \o RemoveFirst(Tail(s), sub)

\* str.replace(sub, ""): every non-overlapping occurrence of sub, from the
\* left, is removed.
RECURSIVE RemoveAll(_, _)
RemoveAll(s, sub) ==
  IF s = <<>> THEN <<>>
  ELSE IF StartsWith(s, sub) THEN RemoveAll(SubSeq(s, Len(sub) + 1, Len(s)), sub)
  ELSE <<Head(s)>> \o RemoveAll(Tail(s), sub)

\* re.sub(r"^[-_]+", "", s)
RECURSIVE StripLeadingSeps(_)
StripLeadingSeps(s) ==
  IF s # <<>> /\ IsSep(Head(s)) THEN StripLeadingSeps(Tail(s)) ELSE s

\* re.sub(r"[-_]+$", "", s)
RECURSIVE StripTrailingSeps(_)
StripTrailingSeps(s) ==
  IF s # <<>> /\ IsSep(s[Len(s)])
  THEN StripTrailingSeps(SubSeq(s, 1, Len(s) - 1))
  ELSE s

\* re.sub(r"^[-_]+|[-_]+$", "", s)
StripSeps(s) == StripTrailingSeps(StripLeadingSeps(s))

\* ------------------------------------------------------------- the parser

\* A YYYY-MM-DD parser that hands the day and the month to the date in the
\* wrong order.
ParseYMD_day_as_month(name) ==
  LET w    == Greedy(WidthsYMD(name))
      yyyy == SubSeq(name, 1, 4)
      mm   == SubSeq(name, 6, 5 + w[1])
      dd   == SubSeq(name, 7 + w[1], 6 + w[1] + w[2])
  IN [dt    |-> MakeDate(ToInt(yyyy), ToInt(dd), ToInt(mm)),
      label |-> yyyy \o <<"-">> \o zfill(mm, 2) \o <<"-">> \o zfill(dd, 2),
      rest  |-> TailRest(name, 6 + w[1] + w[2])]

ParseYMD(name) ==
  LET w    == Greedy(WidthsYMD(name))
      yyyy == SubSeq(name, 1, 4)
      mm   == SubSeq(name, 6, 5 + w[1])
      dd   == SubSeq(name, 7 + w[1], 6 + w[1] + w[2])
  IN [dt    |-> MakeDate(ToInt(yyyy), ToInt(mm), ToInt(dd)),
      label |-> yyyy \o <<"-">> \o zfill(mm, 2) \o <<"-">> \o zfill(dd, 2),
      rest  |-> TailRest(name, 6 + w[1] + w[2])]

ParseDMY(name) ==
  LET w    == Greedy(WidthsDMY(name))
      dd   == SubSeq(name, 1, w[1])
      mm   == SubSeq(name, 2 + w[1], 1 + w[1] + w[2])
      yyyy == SubSeq(name, 3 + w[1] + w[2], 6 + w[1] + w[2])
  IN [dt    |-> MakeDate(ToInt(yyyy), ToInt(mm), ToInt(dd)),
      label |-> zfill(dd, 2) \o <<"-">> \o zfill(mm, 2) \o <<"-">> \o yyyy,
      rest  |-> TailRest(name, 6 + w[1] + w[2])]

ParseMY(name) ==
  LET w    == Greedy(WidthsMY(name))
      mm   == SubSeq(name, 1, w[1])
      yyyy == SubSeq(name, 2 + w[1], 5 + w[1])
  IN [dt    |-> MakeDate(ToInt(yyyy), ToInt(mm), 1),
      label |-> zfill(mm, 2) \o <<"-">> \o yyyy,
      rest  |-> TailRest(name, 5 + w[1])]

ParseY(name) ==
  LET yyyy == SubSeq(name, 1, 4)
  IN [dt    |-> MakeDate(ToInt(yyyy), 1, 1),
      label |-> yyyy,
      rest  |-> TailRest(name, 4)]

ParseAnyYear(name) ==
  LET yyyy == ToInt(YearText(name))
  IN [dt    |-> MakeDate(yyyy, 1, 1),
      label |-> ToStr(yyyy),
      rest  |-> StripSeps(RemoveAll(name, ToStr(yyyy)))]

ParseNone(name) == [dt |-> NoDate, label |-> name, rest |-> <<>>]

\* A parser that tries the YYYY prefix before the YYYY-MM-DD prefix.
parse_year_prefix_first(filename) ==
  LET name == splitext(filename)
  IN IF MatchesY(name) THEN ParseY(name)
     ELSE IF WidthsYMD(name) # {} THEN ParseYMD(name)
     ELSE IF WidthsDMY(name) # {} THEN ParseDMY(name)
     ELSE IF WidthsMY(name) # {} THEN ParseMY(name)
     ELSE IF SearchYear(name) # 0 THEN ParseAnyYear(name)
     ELSE ParseNone(name)

\* parse_date_from_filename: (date_obj, label, rest_slug), from the first of
\* the five patterns that matches the name without its extension.
parse_date_from_filename(filename) ==
  LET name == splitext(filename)
  IN IF WidthsYMD(name) # {} THEN ParseYMD(name)
     ELSE IF WidthsDMY(name) # {} THEN ParseDMY(name)
     ELSE IF WidthsMY(name) # {} THEN ParseMY(name)
     ELSE IF MatchesY(name) THEN ParseY(name)
     ELSE IF SearchYear(name) # 0 THEN ParseAnyYear(name)
     ELSE ParseNone(name)

\* ----------------------------------------------------------------- titles

Untitled == <<"U", "n", "t", "i", "t", "l", "e", "d">>

\* re.sub(r"[-_]+", " ", slug): every run of separators becomes one space.
RECURSIVE CollapseSeps(_)
CollapseSeps(s) ==
  IF s = <<>> THEN <<>>
  ELSE IF IsSep(Head(s)) THEN <<" ">> \o CollapseSeps(StripLeadingSeps(s))
  ELSE <<Head(s)>> \o CollapseSeps(Tail(s))

\* str.strip(): leading and trailing white space removed.
RECURSIVE strip(_)
strip(s) ==
  IF s # <<>> /\ Head(s) = " " THEN strip(Tail(s))
  ELSE IF s # <<>> /\ s[Len(s)] = " " THEN strip(SubSeq(s, 1, Len(s) - 1))
  ELSE s

\* An uppercasing of the first character of the text only.
UpperFirstOnly(text) ==
  [i \in 1..Len(text) |-> IF i = 1 THEN Upper(text[i]) ELSE text[i]]

\* re.sub(r"\b\w", upper, text): a word character that follows no word
\* character is uppercased.
UpperWordStarts(text) ==
  [i \in 1..Len(text) |->
     IF IsWordChar(text[i]) /\ (i = 1 \/ ~IsWordChar(text[i - 1]))
     THEN Upper(text[i])
     ELSE text[i]]

humanize_title(slug) ==
  IF slug = <<>> THEN Untitled
  ELSE UpperWordStarts(strip(CollapseSeps(slug)))

\* ----------------------------------------------------------------- events

\* The absent value (None) of a year, of a sort key and of a path.
NoYear == 0
NoKey == <<>>
NoPath == <<>>

\* f"{IMAGES_DIR.name}/{entry.name}": a relative path, by its components.
full_rel_path(filename) == <<"images", filename>>

\* f"{IMAGES_DIR.name}/{THUMBS_DIR.name}/{thumb_path.name}"
thumb_rel_path(filename) == <<"images", "thumbs", filename>>

\* A year derivation without the fallback to the name of the file.
year_of_label_only(dt, label, base_no_ext) ==
  IF dt # NoDate THEN dt[1]
  ELSE IF SearchYear(label) # 0 THEN ToInt(YearText(label))
  ELSE NoYear

\* The year of an event: of the parsed date, else the first 19xx/20xx run of
\* the label, else the first such run of the name without its extension.
year_of(dt, label, base_no_ext) ==
  IF dt # NoDate THEN dt[1]
  ELSE IF SearchYear(label) # 0 THEN ToInt(YearText(label))
  ELSE IF SearchYear(base_no_ext) # 0 THEN ToInt(YearText(base_no_ext))
  ELSE NoYear

\* The event record collect_events appends for one image file, given the
\* content of its text sidecar and the path of its jxl sidecar.
MakeEvent(filename, text_content, jxl_rel_path) ==
  LET p           == parse_date_from_filename(filename)
      base_no_ext == splitext(filename)
  IN [image       |-> thumb_rel_path(filename),
      full_image  |-> full_rel_path(filename),
      jxl_image   |-> jxl_rel_path,
      date_label  |-> p.label,
      file_label  |-> base_no_ext,
      title       |-> humanize_title(IF p.rest # <<>> THEN p.rest ELSE stem(filename)),
      description |-> <<>>,
      text        |-> text_content,
      year        |-> year_of(p.dt, p.label, base_no_ext),
      sort_key    |-> IF p.dt # NoDate THEN isoformat(p.dt) ELSE NoKey]

\* The key of the final sort: (sort_key is None, sort_key or "").
SortKey(ev) == <<IF ev.sort_key = NoKey THEN 1 ELSE 0, ev.sort_key>>

\* Python's tuple comparison a < b of two such keys.
KeyLess(a, b) == a[1] < b[1] \/ (a[1] = b[1] /\ StrLess(a[2], b[2]))

\* A sort that places each event before the events of the same key.
RECURSIVE InsertEvent_before_equal(_, _)
InsertEvent_before_equal(sorted, ev) ==
  IF sorted = <<>> THEN <<ev>>
  ELSE IF ~KeyLess(SortKey(sorted[Len(sorted)]), SortKey(ev))
       THEN InsertEvent_before_equal(SubSeq(sorted, 1, Len(sorted) - 1), ev)
              \o <<sorted[Len(sorted)]>>
       ELSE sorted \o <<ev>>

\* list.sort(key=...): a stable sort, each event placed after the events whose
\* key is not greater than its own.
RECURSIVE InsertEvent(_, _)
InsertEvent(sorted, ev) ==
  IF sorted = <<>> THEN <<ev>>
  ELSE IF KeyLess(SortKey(ev), SortKey(sorted[Len(sorted)]))
       THEN InsertEvent(SubSeq(sorted, 1, Len(sorted) - 1), ev) \o <<sorted[Len(sorted)]>>
       ELSE sorted \o <<ev>>

RECURSIVE SortEvents(_)
SortEvents(evs) ==
  IF evs = <<>> THEN <<>>
  ELSE InsertEvent(SortEvents(SubSeq(evs, 1, Len(evs) - 1)), evs[Len(evs)])

\* ev.pop("sort_key", None)
PopSortKey(ev) == [k \in (DOMAIN ev) \ {"sort_key"} |-> ev[k]]

\* ------------------------------------------------------------ input names

\* The pieces file stems are generated from: leap and non-leap years, the
\* year 0000, a number that is a day but no month, a one-digit number and a
\* word.
Chunks ==
  {<<"2", "0", "2", "4">>,
   <<"1", "9", "4", "5">>,
   <<"0", "0", "0", "0">>,
   <<"2", "9">>,
   <<"2">>,
   <<"a", "b">>}

Seps == {<<"-">>, <<"_">>}

JpgExt == <<".", "j", "p", "g">>

\* The file names of the examples of the documentation.
ExampleNames ==
  {<<"2", "0", "2", "4", "-", "0", "1", "-", "1", "5", "-", "b", "r", "i", "e", "f", "i", "n", "g", ".", "j", "p", "g">>,
   <<"1", "5", "-", "0", "1", "-", "2", "0", "2", "4", "-", "n", "o", "t", "e", ".", "p", "n", "g">>,
   <<"m", "i", "s", "c", "_", "r", "e", "p", "o", "r", "t", "_", "1", "9", "4", "4", ".", "j", "p", "g">>,
   <<"n", "o", "t", "e", "s", ".", "p", "n", "g">>}

\* File names with a year inside a word, inside a longer run of digits and
\* written twice, a name with a dot in its stem, and a name with leading,
\* trailing and repeated separators.
EdgeNames ==
  {<<"x", "2", "0", "2", "4", ".", "j", "p", "g">>,
   <<"x", "2", "0", "2", "4", "-", "2", "0", "2", "4", ".", "j", "p", "g">>,
   <<"2", "0", "2", "4", "x", "_", "a", "b", ".", "j", "p", "g">>,
   <<"a", "b", "_", "1", "2", "0", "2", "4", ".", "j", "p", "g">>,
   <<"2", "0", "2", "4", "-", "0", "2", "-", "2", "9", "-", "a", ".", "b", ".", "j", "p", "g">>,
   <<"2", "0", "2", "4", "2", "0", "2", "4", "_", "a", "b", ".", "j", "p", "g">>,
   <<"_", "a", "b", "-", "-", "2", "9", "_", ".", "j", "p", "g">>}

\* The file names the parser is first applied to: each chunk alone, and the
\* names above.  The longer names are made from these by ExtendName.
FileNames == {c \o JpgExt : c \in Chunks} \cup ExampleNames \cup EdgeNames

\* The number of separators of a string.
RECURSIVE CountSeps(_)
CountSeps(s) ==
  IF s = <<>> THEN 0
  ELSE (IF IsSep(Head(s)) THEN 1 ELSE 0) + CountSeps(Tail(s))

\* The names a file of the images directory may have: dated names whose
\* order by name is not their order by date, a name with an invalid date, a
\* name without a date, an upper-case extension and a file that is no image.
Catalogue ==
  {<<"2", "0", "2", "4", "-", "2", "-", "0", "1", ".", "j", "p", "g">>,
   <<"2", "0", "2", "4", "-", "1", "1", "-", "3", "0", ".", "p", "n", "g">>,
   <<"m", "i", "s", "c", "_", "r", "e", "p", "o", "r", "t", "_", "1", "9", "4", "4", ".", "j", "p", "g">>,
   <<"n", "o", "t", "e", "s", ".", "p", "n", "g">>,
   <<"2", "0", "2", "4", "-", "1", "3", "-", "0", "1", "-", "x", ".", "J", "P", "G">>,
   <<"r", "e", "a", "d", "m", "e", ".", "t", "x", "t">>}

\* The names an entry of the images directory may have when the scan itself
\* is examined: two images of the same date whose names differ, two images
\* without a date that share one stem (one with an upper-case extension),
\* the text and the jxl sidecar of that stem, and a subdirectory whose name
\* ends like an image.
Album ==
  {<<"2", "0", "2", "4", "-", "0", "2", "-", "0", "1", ".", "p", "n", "g">>,
   <<"2", "0", "2", "4", "-", "2", "-", "0", "1", ".", "j", "p", "g">>,
   <<"n", "o", "t", "e", "s", ".", "p", "n", "g">>,
   <<"n", "o", "t", "e", "s", ".", "J", "P", "E", "G">>,
   <<"n", "o", "t", "e", "s", ".", "t", "x", "t">>,
   <<"n", "o", "t", "e", "s", ".", "j", "x", "l">>,
   <<"a", "l", "b", "u", "m", ".", "j", "p", "g">>}

\* The subdirectory of the album.
AlbumDir == <<"a", "l", "b", "u", "m", ".", "j", "p", "g">>

\* The extensions of the sidecars.
TxtExt == <<".", "t", "x", "t">>
JxlExt == <<".", "j", "x", "l">>

\* A byte of a text file that is no UTF-8.
BadByte == "\\xff"

\* What a text sidecar may hold: nothing, a caption, a caption with a byte
\* that cannot be decoded.
Captions == {<<>>, <<"h", "i">>, <<"h", BadByte, "i">>}

\* The accepted extensions: {".jpg", ".jpeg", ".png"}.
ImageExts ==
  {<<".", "j", "p", "g">>, <<".", "j", "p", "e", "g">>, <<".", "p", "n", "g">>}

\* THUMBS_DIR.name
ThumbsName == <<"t", "h", "u", "m", "b", "s">>

\* ------------------------------------------------------------------ state

\* The absent file.  A file is <<kind, content>>: an image, a thumbnail or a
\* jxl file with the version of its bytes, a text file with its bytes, a
\* directory.
NoFile == <<>>

VARIABLES
  filename,   \* the file name handed to the parser
  pstage,     \* "off", "new", "parsed", "derived"
  parsed,     \* the triple parse_date_from_filename returned
  pevent,     \* the event record derived for that file name
  imagesDir,  \* images: "dir" or "absent"
  images,     \* images/: file name -> its bytes, or NoFile
  thumbsDir,  \* images/thumbs: "absent", "dir", or "file" (not a directory)
  thumbs,     \* images/thumbs/: file name -> its bytes, or NoFile
  html,       \* timeline.html: whether it exists and the events it embeds
  pc,         \* "idle" or "collect" (inside the loop of collect_events)
  todo,       \* the directory entries the loop has still to visit
  events,     \* the list collect_events builds, then returns
  log,        \* the warnings printed by the current run
  status,     \* how the last run ended: "none", "ok", "error"
  runs,       \* the number of runs started
  fonts,      \* fonts/: the names of the font files in it
  rendered,   \* the string build_html returned, NoPage before it is called
  binderDir,  \* images/binder: whether it exists and the names of its entries
  binderHtml, \* binder.html: whether it exists, its image literal, its slider
  binderPage, \* binder.html open in a browser: the variables of its script
  a11yStore,  \* localStorage: whether it takes writes, its item a11y_settings
  timelinePage, \* timeline.html open in a browser: a11y and what it is applied to
  overlay,    \* its full-screen overlay, with the cleanup timers that are pending
  yearNav     \* its year navigation: yearLoadState, the pills, the thumbnails

vars ==
  <<filename, pstage, parsed, pevent, imagesDir, images, thumbsDir, thumbs,
    html, pc, todo, events, log, status, runs, fonts, rendered, binderDir,
    binderHtml, binderPage, a11yStore, timelinePage, overlay, yearNav>>

parseVars == <<filename, pstage, parsed, pevent>>
runVars ==
  <<imagesDir, images, thumbsDir, thumbs, html, pc, todo, events, log, status,
    runs>>
htmlVars == <<fonts, rendered>>
binderVars == <<binderDir, binderHtml, binderPage>>
viewVars == <<overlay, yearNav>>
pageVars == <<a11yStore, timelinePage, overlay, yearNav>>

NoParse == [dt |-> NoDate, label |-> <<>>, rest |-> <<>>]
NoEvent == [image |-> NoPath]
NoHtml == [exists |-> FALSE, events |-> <<>>]
NoPage == <<>>

\* No images/binder, no binder.html, and no page open in a browser.
NoBinderDir == [exists |-> FALSE, entries |-> {}]
NoBinderHtml == [exists |-> FALSE, images |-> <<>>, max |-> 0]
NoBinderPage ==
  [loaded |-> FALSE, open |-> FALSE, images |-> <<>>, currentIndex |-> 1,
   firstSpread |-> TRUE, leftPage |-> <<>>, rightPage |-> <<>>,
   pageInfo |-> <<>>, slider |-> 0]

\* The binder generator has nothing to read and has not run.
BinderOff ==
  /\ binderDir = NoBinderDir
  /\ binderHtml = NoBinderHtml
  /\ binderPage = NoBinderPage

\* The settings of loadA11ySettings when nothing is stored.  The scale is in
\* hundredths.
DefaultSettings ==
  [scale |-> 100, light |-> FALSE, contrast |-> FALSE, font |-> "default",
   invert_images |-> FALSE]

\* localStorage without the item a11y_settings.
NoItem == [kind |-> "none", value |-> <<>>]

\* timeline.html before its script has run: <body class="theme-dark">, the
\* buttons as the markup has them.
NoTimelinePage ==
  [loaded |-> FALSE, a11y |-> DefaultSettings, bodyClasses |-> {"theme-dark"},
   fontScale |-> 100, invertImages |-> "0", fontSelect |-> "default",
   themeDisabled |-> FALSE]

\* The full-screen overlay as the markup has it: hidden, its image without a
\* source, its message shown; no timer is pending and openFullscreen was
\* never called.
NoOverlay ==
  [ready |-> FALSE, visible |-> FALSE, src |-> <<>>, srcset |-> <<>>,
   alt |-> <<"F", "u", "l", "l", "-", "s", "i", "z", "e", " ", "a", "r", "c", "h", "i", "v", "e", " ", "i", "m", "a", "g", "e">>,
   msgHidden |-> FALSE, timers |-> 0, opened |-> <<>>]

\* The year navigation before the page is rendered: no year, no pill, no
\* thumbnail.
NoYearNav == [yearLoadState |-> <<>>, pills |-> <<>>, thumbnails |-> <<>>]

\* No timeline page is open in a browser.
PageOff ==
  /\ a11yStore = [ok |-> TRUE, item |-> NoItem]
  /\ timelinePage = NoTimelinePage
  /\ overlay = NoOverlay
  /\ yearNav = NoYearNav

\* -------------------------------------------------------------- thumbnails

\* What the imaging library and the file copy do for a thumbnail that does
\* not exist yet: the thumbnail is saved; saving fails and the original is
\* copied; both fail and nothing is at the thumbnail path; both fail and the
\* bytes written before the failure stay at the thumbnail path.
ThumbOutcomes == {"saved", "copied", "lost", "partial"}

\* A thumbnail generator that regenerates a thumbnail made from other bytes
\* than those the source now has.
ensure_thumbnail_refreshing(name, dir, cache, src, outcome) ==
  IF dir = "file"
  THEN [raised |-> TRUE, dir |-> dir, cache |-> cache, warns |-> {}]
  ELSE IF cache[name] # NoFile /\ cache[name][2] = src[2]
  THEN [raised |-> FALSE, dir |-> "dir", cache |-> cache, warns |-> {}]
  ELSE [raised |-> FALSE, dir |-> "dir",
        cache |-> [cache EXCEPT ![name] = <<"thumb", src[2]>>],
        warns |-> {}]

\* A thumbnail generator that does not catch the failure of the copy.
ensure_thumbnail_copy_uncaught(name, dir, cache, src, outcome) ==
  IF dir = "file"
  THEN [raised |-> TRUE, dir |-> dir, cache |-> cache, warns |-> {}]
  ELSE IF cache[name] # NoFile
  THEN [raised |-> FALSE, dir |-> "dir", cache |-> cache, warns |-> {}]
  ELSE IF outcome = "saved"
  THEN [raised |-> FALSE, dir |-> "dir",
        cache |-> [cache EXCEPT ![name] = <<"thumb", src[2]>>],
        warns |-> {}]
  ELSE IF outcome = "copied"
  THEN [raised |-> FALSE, dir |-> "dir",
        cache |-> [cache EXCEPT ![name] = src],
        warns |-> {<<"thumbnail", name>>}]
  ELSE [raised |-> TRUE, dir |-> "dir", cache |-> cache,
        warns |-> {<<"thumbnail", name>>}]

\* ensure_thumbnail(src_path): the thumbnail directory and cache after the
\* call, the warnings printed, and whether the call raised.
ensure_thumbnail(name, dir, cache, src, outcome) ==
  IF dir = "file"
  THEN [raised |-> TRUE, dir |-> dir, cache |-> cache, warns |-> {}]
  ELSE IF cache[name] # NoFile
  THEN [raised |-> FALSE, dir |-> "dir", cache |-> cache, warns |-> {}]
  ELSE IF outcome = "saved"
  THEN [raised |-> FALSE, dir |-> "dir",
        cache |-> [cache EXCEPT ![name] = <<"thumb", src[2]>>],
        warns |-> {}]
  ELSE IF outcome = "copied"
  THEN [raised |-> FALSE, dir |-> "dir",
        cache |-> [cache EXCEPT ![name] = src],
        warns |-> {<<"thumbnail", name>>}]
  ELSE IF outcome = "lost"
  THEN [raised |-> FALSE, dir |-> "dir", cache |-> cache,
        warns |-> {<<"thumbnail", name>>, <<"copy", name>>}]
  ELSE [raised |-> FALSE, dir |-> "dir",
        cache |-> [cache EXCEPT ![name] = <<"partial", src[2]>>],
        warns |-> {<<"thumbnail", name>>, <<"copy", name>>}]

\* ------------------------------------------------------------ the scanner

\* IMAGES_DIR.is_dir()
is_dir == imagesDir = "dir"

\* IMAGES_DIR.iterdir(): the names of the entries of images/.
Entries ==
  {f \in DOMAIN images : images[f] # NoFile}
    \cup (IF thumbsDir = "absent" THEN {} ELSE {ThumbsName})

\* A file test that takes every entry for a file.
is_file_any(name) == TRUE

\* entry.is_file()
is_file(name) ==
  IF name = ThumbsName THEN thumbsDir = "file" ELSE images[name][1] # "dir"

\* (IMAGES_DIR / name).exists()
path_exists(name) == name \in DOMAIN images /\ images[name] # NoFile

\* read_text(encoding="utf-8", errors="ignore"): the bytes of the file as
\* text, the bytes that cannot be decoded left out.
read_text(file) == SelectSeq(file[2], LAMBDA b : b # BadByte)

\* A text sidecar looked up under the whole file name of the image.
txt_path_of_whole_name(entry) == entry \o TxtExt

\* txt_path of an entry, and whether reading it raises (it is a directory).
txt_path(entry) == splitext(entry) \o TxtExt
txt_raises(entry) ==
  path_exists(txt_path(entry)) /\ images[txt_path(entry)][1] = "dir"

\* text_content: the text of the sidecar <base_no_ext>.txt, "" without one.
text_content(entry) ==
  IF path_exists(txt_path(entry)) THEN read_text(images[txt_path(entry)])
  ELSE <<>>

\* jxl_rel_path: the path of the sidecar <base_no_ext>.jxl, None without one.
jxl_rel_path(entry) ==
  IF path_exists(splitext(entry) \o JxlExt)
  THEN <<"images", splitext(entry) \o JxlExt>>
  ELSE NoPath

\* sorted(...): the names in ascending order.
RECURSIVE SortNames(_)
SortNames(S) ==
  IF S = {} THEN <<>>
  ELSE LET least == CHOOSE n \in S : \A o \in S \ {n} : StrLess(n, o)
       IN <<least>> \o SortNames(S \ {least})

\* ---------------------------------------------------------------- actions

\* A start that does not test whether the images directory exists, and takes
\* a missing directory for an empty one.
BeginRun_unchecked ==
  /\ pc = "idle"
  /\ runs < MaxRuns
  /\ runs' = runs + 1
  /\ events' = <<>>
  /\ log' = {}
  /\ pc' = "collect"
  /\ todo' = SortNames(Entries)
  /\ status' = "none"
  /\ UNCHANGED <<imagesDir, images, thumbsDir, thumbs, html>>
  /\ UNCHANGED parseVars
  /\ UNCHANGED htmlVars
  /\ UNCHANGED binderVars
  /\ UNCHANGED pageVars

\* main() starts: collect_events tests the directory and lists it.
BeginRun ==
  /\ pc = "idle"
  /\ runs < MaxRuns
  /\ runs' = runs + 1
  /\ events' = <<>>
  /\ log' = {}
  /\ IF is_dir
     THEN /\ pc' = "collect"
          /\ todo' = SortNames(Entries)
          /\ status' = "none"
     ELSE /\ pc' = "idle"
          /\ todo' = <<>>
          /\ status' = "error"
  /\ UNCHANGED <<imagesDir, images, thumbsDir, thumbs, html>>
  /\ UNCHANGED parseVars
  /\ UNCHANGED htmlVars
  /\ UNCHANGED binderVars
  /\ UNCHANGED pageVars

\* One iteration of the loop of collect_events.
LoopStep ==
  /\ pc = "collect"
  /\ todo # <<>>
  /\ LET entry == Head(todo)
         ev    == MakeEvent(entry, text_content(entry), jxl_rel_path(entry))
     IN \E outcome \in ThumbOutcomes :
          LET r == ensure_thumbnail(entry, thumbsDir, thumbs, images[entry], outcome)
          IN IF ~is_file(entry) \/ lower(suffix(entry)) \notin ImageExts
             THEN /\ todo' = Tail(todo)
                  /\ UNCHANGED <<thumbsDir, thumbs, pc, events, log, status>>
             ELSE IF r.raised
             THEN /\ pc' = "idle"
                  /\ status' = "error"
                  /\ todo' = <<>>
                  /\ events' = <<>>
                  /\ UNCHANGED <<thumbsDir, thumbs, log>>
             ELSE IF txt_raises(entry)
             THEN /\ pc' = "idle"
                  /\ status' = "error"
                  /\ todo' = <<>>
                  /\ events' = <<>>
                  /\ thumbsDir' = r.dir
                  /\ thumbs' = r.cache
                  /\ log' = log \cup r.warns
             ELSE /\ thumbsDir' = r.dir
                  /\ thumbs' = r.cache
                  /\ log' = log \cup r.warns
                  /\ events' = Append(events, ev)
                  /\ todo' = Tail(todo)
                  /\ UNCHANGED <<pc, status>>
  /\ UNCHANGED <<imagesDir, images, html, runs>>
  /\ UNCHANGED parseVars
  /\ UNCHANGED htmlVars
  /\ UNCHANGED binderVars
  /\ UNCHANGED pageVars

\* An end of run that adds the events to those of the page that exists.
EndRun_merging ==
  /\ pc = "collect"
  /\ todo = <<>>
  /\ LET sorted == SortEvents(events)
         result == [i \in 1..Len(sorted) |-> PopSortKey(sorted[i])]
     IN /\ events' = result
        /\ html' = [exists |-> TRUE, events |-> html.events \o result]
  /\ pc' = "idle"
  /\ status' = "ok"
  /\ UNCHANGED <<imagesDir, images, thumbsDir, thumbs, todo, log, runs>>
  /\ UNCHANGED parseVars
  /\ UNCHANGED htmlVars
  /\ UNCHANGED binderVars
  /\ UNCHANGED pageVars

\* The loop is over: collect_events sorts the list and drops the sort keys,
\* main() renders the page and writes timeline.html.
EndRun ==
  /\ pc = "collect"
  /\ todo = <<>>
  /\ LET sorted == SortEvents(events)
         result == [i \in 1..Len(sorted) |-> PopSortKey(sorted[i])]
     IN /\ events' = result
        /\ html' = [exists |-> TRUE, events |-> result]
  /\ pc' = "idle"
  /\ status' = "ok"
  /\ UNCHANGED <<imagesDir, images, thumbsDir, thumbs, todo, log, runs>>
  /\ UNCHANGED parseVars
  /\ UNCHANGED htmlVars
  /\ UNCHANGED binderVars
  /\ UNCHANGED pageVars

\* The number of edits the files of S have received: a file starts at
\* version 1 and each edit raises its version by one.
RECURSIVE EditCount(_)
EditCount(S) ==
  IF S = {} THEN 0
  ELSE LET f == CHOOSE g \in S : TRUE
       IN (IF images[f] = NoFile THEN 0 ELSE images[f][2] - 1) + EditCount(S \ {f})

\* Between two runs, the bytes of a source image are replaced.
EditImage ==
  /\ pc = "idle"
  /\ runs > 0
  /\ EditCount(Catalogue) < MaxEdits
  /\ \E f \in Catalogue :
       /\ images[f] # NoFile
       /\ images' = [images EXCEPT ![f] = <<"image", images[f][2] + 1>>]
  /\ UNCHANGED <<imagesDir, thumbsDir, thumbs, html, pc, todo, events, log,
                 status, runs>>
  /\ UNCHANGED parseVars
  /\ UNCHANGED htmlVars
  /\ UNCHANGED binderVars
  /\ UNCHANGED pageVars

Init ==
  /\ imagesDir = "dir"
  /\ images \in [Catalogue -> {NoFile, <<"image", 1>>}]
  /\ Cardinality({f \in Catalogue : images[f] # NoFile}) <= MaxFiles
  /\ thumbsDir \in {"absent", "file"}
  /\ thumbs = [f \in Catalogue |-> NoFile]
  /\ html = NoHtml
  /\ pc = "idle"
  /\ todo = <<>>
  /\ events = <<>>
  /\ log = {}
  /\ status = "none"
  /\ runs = 0
  /\ fonts = {}
  /\ rendered = NoPage
  /\ BinderOff
  /\ PageOff
  /\ filename = <<>>
  /\ pstage = "off"
  /\ parsed = NoParse
  /\ pevent = NoEvent

Next == BeginRun \/ LoopStep \/ EndRun \/ EditImage

Spec == Init /\ [][Next]_vars

\* ------------------------------------------------- the parser on its own

\* The file to parse gets a longer name: a separator and a chunk are put in
\* front of its name.
ExtendName ==
  /\ pstage = "new"
  /\ CountSeps(filename) < MaxChunks - 1
  /\ \E c \in Chunks : \E sep \in Seps : filename' = c \o sep \o filename
  /\ UNCHANGED <<pstage, parsed, pevent>>
  /\ UNCHANGED runVars
  /\ UNCHANGED htmlVars
  /\ UNCHANGED binderVars
  /\ UNCHANGED pageVars

\* parse_date_from_filename is applied to the file name.
ParseName ==
  /\ pstage = "new"
  /\ parsed' = parse_date_from_filename(filename)
  /\ pstage' = "parsed"
  /\ UNCHANGED <<filename, pevent>>
  /\ UNCHANGED runVars
  /\ UNCHANGED htmlVars
  /\ UNCHANGED binderVars
  /\ UNCHANGED pageVars

\* The event of the file name is assembled as collect_events assembles it.
DeriveEvent ==
  /\ pstage = "parsed"
  /\ pevent' = MakeEvent(filename, <<>>, NoPath)
  /\ pstage' = "derived"
  /\ UNCHANGED <<filename, parsed>>
  /\ UNCHANGED runVars
  /\ UNCHANGED htmlVars
  /\ UNCHANGED binderVars
  /\ UNCHANGED pageVars

InitParse ==
  /\ filename \in FileNames
  /\ pstage = "new"
  /\ parsed = NoParse
  /\ pevent = NoEvent
  /\ imagesDir = "dir"
  /\ images = [f \in Catalogue |-> NoFile]
  /\ thumbsDir = "absent"
  /\ thumbs = [f \in Catalogue |-> NoFile]
  /\ html = NoHtml
  /\ pc = "idle"
  /\ todo = <<>>
  /\ events = <<>>
  /\ log = {}
  /\ status = "none"
  /\ runs = 0
  /\ fonts = {}
  /\ rendered = NoPage
  /\ BinderOff
  /\ PageOff

NextParse == ExtendName \/ ParseName \/ DeriveEvent

SpecParse == InitParse /\ [][NextParse]_vars

\* ------------------------------------------------- the scan on its own

\* The file an entry of the album is, a text sidecar holding caption.
AlbumFile(f, caption) ==
  IF f = AlbumDir THEN <<"dir", 1>>
  ELSE IF lower(suffix(f)) = TxtExt THEN <<"text", caption>>
  ELSE IF lower(suffix(f)) = JxlExt THEN <<"jxl", 1>>
  ELSE <<"image", 1>>

\* Between two runs the images directory is removed, with all it holds.
RemoveImagesDir ==
  /\ pc = "idle"
  /\ runs > 0
  /\ imagesDir = "dir"
  /\ imagesDir' = "absent"
  /\ images' = [f \in DOMAIN images |-> NoFile]
  /\ thumbsDir' = "absent"
  /\ thumbs' = [f \in DOMAIN thumbs |-> NoFile]
  /\ UNCHANGED <<html, pc, todo, events, log, status, runs>>
  /\ UNCHANGED parseVars
  /\ UNCHANGED htmlVars
  /\ UNCHANGED binderVars
  /\ UNCHANGED pageVars

\* Between two runs a sidecar is removed, or one is put into the directory.
EditSidecar ==
  /\ pc = "idle"
  /\ runs > 0
  /\ runs < MaxRuns
  /\ imagesDir = "dir"
  /\ \E f \in {g \in DOMAIN images : lower(suffix(g)) \in {TxtExt, JxlExt}} :
       IF images[f] # NoFile
       THEN images' = [images EXCEPT ![f] = NoFile]
       ELSE \E caption \in Captions :
              images' = [images EXCEPT ![f] = AlbumFile(f, caption)]
  /\ UNCHANGED <<imagesDir, thumbsDir, thumbs, html, pc, todo, events, log,
                 status, runs>>
  /\ UNCHANGED parseVars
  /\ UNCHANGED htmlVars
  /\ UNCHANGED binderVars
  /\ UNCHANGED pageVars

InitScan ==
  /\ imagesDir \in {"dir", "absent"}
  /\ \E S \in SUBSET Album : \E caption \in Captions :
       /\ Cardinality(S) <= MaxFiles + 1
       /\ imagesDir = "absent" => S = {}
       /\ images = [f \in Album |-> IF f \in S THEN AlbumFile(f, caption) ELSE NoFile]
  /\ thumbsDir \in {"absent", "file"}
  /\ imagesDir = "absent" => thumbsDir = "absent"
  /\ thumbs = [f \in Album |-> NoFile]
  /\ html = NoHtml
  /\ pc = "idle"
  /\ todo = <<>>
  /\ events = <<>>
  /\ log = {}
  /\ status = "none"
  /\ runs = 0
  /\ fonts = {}
  /\ rendered = NoPage
  /\ BinderOff
  /\ PageOff
  /\ filename = <<>>
  /\ pstage = "off"
  /\ parsed = NoParse
  /\ pevent = NoEvent

NextScan == BeginRun \/ LoopStep \/ EndRun \/ RemoveImagesDir

SpecScan == InitScan /\ [][NextScan]_vars

NextSidecar == BeginRun \/ LoopStep \/ EndRun \/ EditSidecar

\* The scan of an images directory that exists, with no thumbnails yet.
InitSidecar ==
  /\ InitScan
  /\ imagesDir = "dir"
  /\ thumbsDir = "absent"
  /\ Cardinality({f \in Album : images[f] # NoFile}) <= MaxFiles

SpecSidecar == InitSidecar /\ [][NextSidecar]_vars

\* ------------------------------------------------------------ the renderer

\* The placeholder tokens of the template.
FontToken == <<"_", "_", "F", "O", "N", "T", "_", "F", "A", "C", "E", "_",
               "C", "S", "S", "_", "_">>
EventsToken == <<"_", "_", "E", "V", "E", "N", "T", "S", "_", "J", "S", "O",
                 "N", "_", "_">>

\* html_template: the text before the font placeholder, between the two
\* placeholders and after the events placeholder, each cut to the lines next
\* to the placeholders.
TemplateHead ==
  <<" ", " ", " ", " ", "/", "*", " ", "O", "p", "t", "i", "o", "n", "a", "l",
    " ", "l", "o", "c", "a", "l", "l", "y", "-", "h", "o", "s", "t", "e", "d",
    " ", "f", "o", "n", "t", "s", " ", "*", "/", "\n">>
TemplateMiddle ==
  <<"\n", "\n", " ", " ", " ", " ", ":", "r", "o", "o", "t", "{", "\n", " ",
    " ", "<", "s", "c", "r", "i", "p", "t", ">", "\n", " ", " ", " ", " ",
    "c", "o", "n", "s", "t", " ", "e", "v", "e", "n", "t", "s", " ", "=",
    " ">>
TemplateTail ==
  <<";", "\n", "\n", " ", " ", " ", " ", "c", "o", "n", "s", "t", " ", "y",
    "e", "a", "r", "L", "o", "a", "d", "S", "t", "a", "t", "e", " ", "=", " ",
    "{", "}", ";", "\n">>
html_template ==
  TemplateHead \o FontToken \o TemplateMiddle \o EventsToken \o TemplateTail

\* The text that stands for the font rules when there are none.
NoFontsComment ==
  <<"/", "*", " ", "(", "n", "o", " ", "l", "o", "c", "a", "l", " ", "f", "o",
    "n", "t", "s", " ", "f", "o", "u", "n", "d", " ", "i", "n", " ", ".", "/",
    "f", "o", "n", "t", "s", "/", ")", " ", "*", "/">>

\* The font files looked for, with their families, in the order of mappings.
FontMappings ==
  <<<<<<"A", "t", "k", "i", "n", "s", "o", "n", " ", "H", "y", "p", "e", "r",
        "l", "e", "g", "i", "b", "l", "e">>,
      <<"A", "t", "k", "i", "n", "s", "o", "n", "H", "y", "p", "e", "r", "l",
        "e", "g", "i", "b", "l", "e", "-", "R", "e", "g", "u", "l", "a", "r",
        ".", "w", "o", "f", "f", "2">>>>,
    <<<<"L", "e", "x", "e", "n", "d">>,
      <<"L", "e", "x", "e", "n", "d", "-", "R", "e", "g", "u", "l", "a", "r",
        ".", "w", "o", "f", "f", "2">>>>,
    <<<<"O", "p", "e", "n", "D", "y", "s", "l", "e", "x", "i", "c">>,
      <<"O", "p", "e", "n", "D", "y", "s", "l", "e", "x", "i", "c", "-", "R",
        "e", "g", "u", "l", "a", "r", ".", "w", "o", "f", "f", "2">>>>>>

FontFiles == {FontMappings[i][2] : i \in 1..Len(FontMappings)}

\* sep.join(parts)
RECURSIVE Join(_, _)
Join(parts, sep) ==
  IF parts = <<>> THEN <<>>
  ELSE IF Len(parts) = 1 THEN parts[1]
  ELSE parts[1] \o sep \o Join(Tail(parts), sep)

\* The @font-face rule of one family.
FontFaceRule(family, file) ==
  <<"@", "f", "o", "n", "t", "-", "f", "a", "c", "e", " ", "{", "\n", " ",
    " ", "f", "o", "n", "t", "-", "f", "a", "m", "i", "l", "y", ":", " ",
    "\"">>
    \o family
    \o <<"\"", ";", "\n", " ", " ", "s", "r", "c", ":", " ", "u", "r", "l",
         "(", "\"", "f", "o", "n", "t", "s", "/">>
    \o file
    \o <<"\"", ")", " ", "f", "o", "r", "m", "a", "t", "(", "\"", "w", "o",
         "f", "f", "2", "\"", ")", ";", "\n", " ", " ", "f", "o", "n", "t",
         "-", "d", "i", "s", "p", "l", "a", "y", ":", " ", "s", "w", "a", "p",
         ";", "\n", "}">>

\* font_face_css_if_present(): the rules of the font files that exist.
font_face_css_if_present(present) ==
  LET found == SelectSeq(FontMappings, LAMBDA m : m[2] \in present)
  IN Join([i \in 1..Len(found) |-> FontFaceRule(found[i][1], found[i][2])],
    <<"\n">>)

\* json.dumps of a string: quotes, backslashes and line ends escaped, other
\* characters as they are (ensure_ascii=False).
RECURSIVE JsonEscape(_)
JsonEscape(str) ==
  IF str = <<>> THEN <<>>
  ELSE (IF Head(str) = "\"" THEN <<"\\", "\"">>
        ELSE IF Head(str) = "\\" THEN <<"\\", "\\">>
        ELSE IF Head(str) = "\n" THEN <<"\\", "n">>
        ELSE <<Head(str)>>) \o JsonEscape(Tail(str))

JsonString(str) == <<"\"">> \o JsonEscape(str) \o <<"\"">>

JsonNull == <<"n", "u", "l", "l">>

\* IMAGES_DIR.name
ImagesName == <<"i", "m", "a", "g", "e", "s">>

\* A relative path as the string the generator formatted: the names of the
\* images directory, of the thumbnail directory when the path goes through
\* it, and of the file, joined with "/".
PathString(path) ==
  ImagesName \o <<"/">>
    \o (IF Len(path) = 3 THEN ThumbsName \o <<"/">> ELSE <<>>)
    \o path[Len(path)]

\* One "key": value line of an event, at the indentation of indent=2.
JsonMember(key, value) == <<" ", " ", " ", " ">> \o JsonString(key) \o <<":",
                                                                         " ">> \o value

\* json.dumps of one event: its members in the order the record was built.
JsonEvent(ev) ==
  <<" ", " ", "{", "\n">>
    \o Join(<<JsonMember(<<"i", "m", "a", "g", "e">>,
                         JsonString(PathString(ev.image))),
              JsonMember(<<"f", "u", "l", "l", "_", "i", "m", "a", "g", "e">>,
                         JsonString(PathString(ev.full_image))),
              JsonMember(<<"j", "x", "l", "_", "i", "m", "a", "g", "e">>,
                         IF ev.jxl_image = NoPath THEN JsonNull
                         ELSE JsonString(PathString(ev.jxl_image))),
              JsonMember(<<"d", "a", "t", "e", "_", "l", "a", "b", "e", "l">>,
                         JsonString(ev.date_label)),
              JsonMember(<<"f", "i", "l", "e", "_", "l", "a", "b", "e", "l">>,
                         JsonString(ev.file_label)),
              JsonMember(<<"t", "i", "t", "l", "e">>, JsonString(ev.title)),
              JsonMember(<<"d", "e", "s", "c", "r", "i", "p", "t", "i", "o",
                           "n">>,
                         JsonString(ev.description)),
              JsonMember(<<"t", "e", "x", "t">>, JsonString(ev.text)),
              JsonMember(<<"y", "e", "a", "r">>,
                         IF ev.year = NoYear THEN JsonNull ELSE ToStr(ev.year))>>,
            <<",", "\n">>)
    \o <<"\n", " ", " ", "}">>

\* json.dumps(events, ensure_ascii=False, indent=2)
json_dumps(evs) ==
  IF evs = <<>> THEN <<"[", "]">>
  ELSE <<"[", "\n">>
         \o Join([i \in 1..Len(evs) |-> JsonEvent(evs[i])], <<",", "\n">>)
         \o <<"\n", "]">>

\* old occurs in str at index i.
OccursAt(str, old, i) ==
  /\ i + Len(old) - 1 <= Len(str)
  /\ \A j \in 1..Len(old) : str[i + j - 1] = old[j]

\* str.replace(old, new) from index i on: every occurrence of old, found from
\* left to right without overlap, gives way to new.
RECURSIVE ReplaceFrom(_, _, _, _)
ReplaceFrom(str, i, old, new) ==
  LET at == {k \in i..Len(str) : OccursAt(str, old, k)}
  IN IF at = {} THEN SubSeq(str, i, Len(str))
     ELSE LET k == CHOOSE m \in at : \A o \in at : m <= o
          IN SubSeq(str, i, k - 1) \o new \o ReplaceFrom(str, k + Len(old),
    old, new)

replace(str, old, new) == ReplaceFrom(str, 1, old, new)

\* build_html(events): the events placeholder is replaced, then the font
\* placeholder in the string that results.
build_html(evs, present) ==
  LET events_json   == json_dumps(evs)
      font_face_css == font_face_css_if_present(present)
      html1         == replace(html_template, EventsToken, events_json)
  IN replace(html1, FontToken,
             IF font_face_css # <<>> THEN font_face_css ELSE NoFontsComment)

\* The texts a sidecar gives to an event of the renderer: none, one with
\* quotes, and the two placeholder tokens.
RenderTexts ==
  {<<>>,
   <<"s", "a", "y", " ", "\"", "h", "i", "\"">>,
   FontToken,
   EventsToken}

\* The events handed to the renderer: those of a dated and an undated image,
\* with and without a jxl sidecar, with each text.
RenderEvents ==
  {PopSortKey(MakeEvent(f, t, j)) :
     f \in {<<"n", "o", "t", "e", "s", ".", "p", "n", "g">>,
            <<"2", "0", "2", "4", "-", "2", "-", "0", "1", ".", "j", "p",
              "g">>},
     t \in RenderTexts,
     j \in {NoPath, <<"images", <<"n", ".", "j", "x", "l">>>>}}

\* The list of events grows by one event.
AddEvent ==
  /\ rendered = NoPage
  /\ Len(events) < MaxFiles
  /\ \E ev \in RenderEvents : events' = Append(events, ev)
  /\ UNCHANGED <<imagesDir, images, thumbsDir, thumbs, html, pc, todo, log,
                 status, runs, fonts, rendered>>
  /\ UNCHANGED parseVars
  /\ UNCHANGED binderVars
  /\ UNCHANGED pageVars

\* build_html is called with the list.
Render ==
  /\ rendered = NoPage
  /\ rendered' = build_html(events, fonts)
  /\ UNCHANGED <<fonts>>
  /\ UNCHANGED runVars
  /\ UNCHANGED parseVars
  /\ UNCHANGED binderVars
  /\ UNCHANGED pageVars

InitHtml ==
  /\ fonts \in SUBSET FontFiles
  /\ rendered = NoPage
  /\ BinderOff
  /\ PageOff
  /\ events = <<>>
  /\ imagesDir = "dir"
  /\ images = [f \in Catalogue |-> NoFile]
  /\ thumbsDir = "absent"
  /\ thumbs = [f \in Catalogue |-> NoFile]
  /\ html = NoHtml
  /\ pc = "idle"
  /\ todo = <<>>
  /\ log = {}
  /\ status = "none"
  /\ filename = <<>>
  /\ pstage = "off"
  /\ parsed = NoParse
  /\ pevent = NoEvent
  /\ runs = 0

NextHtml == AddEvent \/ Render

SpecHtml == InitHtml /\ [][NextHtml]_vars

\* ------------------------------------------------------------- the binder

\* The endings of the names binder.py takes for images.
BinderExts ==
  {<<".", "p", "n", "g">>, <<".", "j", "p", "g">>,
   <<".", "j", "p", "e", "g">>, <<".", "g", "i", "f">>,
   <<".", "w", "e", "b", "p">>}

\* The names an entry of images/binder may have: images in every accepted
\* ending, one in upper case and one with an apostrophe, a text file and a
\* backup of an image.
BinderNames ==
  {<<"a", ".", "p", "n", "g">>,
   <<"B", ".", "J", "P", "G">>,
   <<"c", ".", "j", "p", "e", "g">>,
   <<"d", ".", "g", "i", "f">>,
   <<"e", ".", "w", "e", "b", "p">>,
   <<"i", "t", "'", "s", ".", "p", "n", "g">>,
   <<"n", "o", "t", "e", "s", ".", "t", "x", "t">>,
   <<"a", ".", "p", "n", "g", ".", "b", "a", "k">>}

\* basePath
basePath == <<"i", "m", "a", "g", "e", "s", "/", "b", "i", "n", "d", "e", "r",
              "/">>

\* str.endswith(suffix)
endswith(str, suf) ==
  Len(str) >= Len(suf) /\ SubSeq(str, Len(str) - Len(suf) + 1, Len(str)) = suf

\* images: the sorted names of the entries whose lower-cased name has an
\* accepted ending.
binder_images(entries) ==
  SortNames({f \in entries : \E ext \in BinderExts : endswith(lower(f), ext)})

\* A slider maximum without its floor.
slider_max_unfloored(count) == count - 2

\* max(len(images) - 2, 0)
slider_max(count) == IF count - 2 > 0 THEN count - 2 ELSE 0

\* repr() of a str: in single quotes, in double quotes when it holds a single
\* and no double quote; the backslash and the quote in use escaped.
RECURSIVE ReprEscape(_, _)
ReprEscape(str, quote) ==
  IF str = <<>> THEN <<>>
  ELSE (IF Head(str) = "\\" THEN <<"\\", "\\">>
        ELSE IF Head(str) = quote THEN <<"\\", quote>>
        ELSE <<Head(str)>>) \o ReprEscape(Tail(str), quote)

repr(str) ==
  LET quote == IF (\E i \in 1..Len(str) : str[i] = "'")
                    /\ ~(\E i \in 1..Len(str) : str[i] = "\"")
               THEN "\"" ELSE "'"
  IN <<quote>> \o ReprEscape(str, quote) \o <<quote>>

\* f"{images}": the repr() of the list.
repr_list(names) ==
  <<"[">> \o Join([i \in 1..Len(names) |-> repr(names[i])], <<",",
                                                              " ">>) \o <<"]">>

\* The script reads the literal: the index of the quote that closes a string
\* literal whose text starts at index i.
RECURSIVE JsStringEnd(_, _, _)
JsStringEnd(text, i, quote) ==
  IF text[i] = "\\" THEN JsStringEnd(text, i + 2, quote)
  ELSE IF text[i] = quote THEN i
  ELSE JsStringEnd(text, i + 1, quote)

\* The value of the text of a string literal.
RECURSIVE JsUnescape(_)
JsUnescape(str) ==
  IF str = <<>> THEN <<>>
  ELSE IF Head(str) = "\\" THEN <<str[2]>> \o JsUnescape(SubSeq(str, 3, Len(str)))
  ELSE <<Head(str)>> \o JsUnescape(Tail(str))

\* The elements of an array literal of strings, read from index i on.
RECURSIVE JsArrayFrom(_, _)
JsArrayFrom(text, i) ==
  IF i > Len(text) \/ text[i] = "]" THEN <<>>
  ELSE IF text[i] \in {"[", ",", " "} THEN JsArrayFrom(text, i + 1)
  ELSE LET end == JsStringEnd(text, i + 1, text[i])
       IN <<JsUnescape(SubSeq(text, i + 1, end - 1))>> \o JsArrayFrom(text,
    end + 1)

\* var images = [...];
JsArray(text) == JsArrayFrom(text, 1)

\* The value a range input with min 0 and step 2 takes when it is set to v:
\* v brought into 0..max, then to the nearest even number of 0..max, the
\* greater one of two that are equally near.
SliderValue(v, max) ==
  LET c == IF v < 0 THEN 0 ELSE IF v > max THEN max ELSE v
  IN IF c % 2 = 0 THEN c
     ELSE IF c + 1 <= max THEN c + 1
     ELSE c - 1

\* The value a range input has before it is set: the middle of 0..max, brought
\* to a step in the same way.
SliderDefault(max) ==
  IF max % 2 = 0 THEN SliderValue(max \div 2, max)
  ELSE IF ((max - 1) \div 2) % 2 = 0 THEN (max - 1) \div 2
  ELSE (max + 1) \div 2

\* images[k] ? basePath + images[k] : "" (k counts from 0)
SrcOf(imgs, k) ==
  IF k + 1 \in 1..Len(imgs) THEN basePath \o imgs[k + 1] ELSE <<>>

\* Math.min(a, b)
Min(a, b) == IF a < b THEN a ELSE b

\* renderSpread(), on the variables of the page and the maximum of the slider.
renderSpread(p, max) ==
  IF p.firstSpread
  THEN [p EXCEPT !.leftPage = <<>>,
                 !.rightPage = SrcOf(p.images, 0),
                 !.pageInfo = <<"Page", 1, Len(p.images)>>,
                 !.slider = SliderValue(0, max)]
  ELSE [p EXCEPT !.leftPage = SrcOf(p.images, p.currentIndex),
                 !.rightPage = SrcOf(p.images, p.currentIndex + 1),
                 !.pageInfo = <<"Pages", p.currentIndex + 1,
                                Min(p.currentIndex + 2, Len(p.images)),
                                Len(p.images)>>,
                 !.slider = SliderValue(p.currentIndex, max)]

\* nextSpread()
nextSpread(p, max) ==
  IF p.firstSpread
  THEN renderSpread([p EXCEPT !.firstSpread = FALSE, !.currentIndex = 1], max)
  ELSE IF p.currentIndex + 2 < Len(p.images)
  THEN renderSpread([p EXCEPT !.currentIndex = p.currentIndex + 2], max)
  ELSE p

\* prevSpread()
prevSpread(p, max) ==
  IF ~p.firstSpread /\ p.currentIndex - 2 < 1
  THEN renderSpread([p EXCEPT !.firstSpread = TRUE], max)
  ELSE IF p.currentIndex - 2 >= 1
  THEN renderSpread([p EXCEPT !.currentIndex = p.currentIndex - 2], max)
  ELSE p

\* binder.py runs: it lists images/binder and writes binder.html; the listing
\* of a directory that does not exist raises, and nothing is written.
RunBinder ==
  /\ runs < MaxRuns
  /\ runs' = runs + 1
  /\ IF binderDir.exists
     THEN LET imgs == binder_images(binderDir.entries)
          IN /\ binderHtml' = [exists |-> TRUE,
                               images |-> repr_list(imgs),
                               max    |-> slider_max(Len(imgs))]
             /\ status' = "ok"
     ELSE /\ status' = "error"
          /\ UNCHANGED binderHtml
  /\ UNCHANGED <<binderDir, binderPage>>
  /\ UNCHANGED <<imagesDir, images, thumbsDir, thumbs, html, pc, todo, events,
    log>>
  /\ UNCHANGED parseVars
  /\ UNCHANGED htmlVars
  /\ UNCHANGED pageVars

\* binder.html is opened in a browser: its script sets its variables.
LoadPage ==
  /\ binderHtml.exists
  /\ binderPage' = [loaded       |-> TRUE,
                    open         |-> FALSE,
                    images       |-> JsArray(binderHtml.images),
                    currentIndex |-> 1,
                    firstSpread  |-> TRUE,
                    leftPage     |-> <<>>,
                    rightPage    |-> <<>>,
                    pageInfo     |-> <<>>,
                    slider       |-> SliderDefault(binderHtml.max)]
  /\ UNCHANGED <<binderDir, binderHtml>>
  /\ UNCHANGED runVars
  /\ UNCHANGED parseVars
  /\ UNCHANGED htmlVars
  /\ UNCHANGED pageVars

\* A click on the cover: the binder opens on the first spread.
OpenCover ==
  /\ binderPage.loaded
  /\ binderPage' =
       renderSpread([binderPage EXCEPT !.open = TRUE, !.firstSpread = TRUE],
                    binderHtml.max)
  /\ UNCHANGED <<binderDir, binderHtml>>
  /\ UNCHANGED runVars
  /\ UNCHANGED parseVars
  /\ UNCHANGED htmlVars
  /\ UNCHANGED pageVars

\* The Next button, the right arrow key or a swipe to the left.
NextSpread ==
  /\ binderPage.loaded
  /\ binderPage' = nextSpread(binderPage, binderHtml.max)
  /\ UNCHANGED <<binderDir, binderHtml>>
  /\ UNCHANGED runVars
  /\ UNCHANGED parseVars
  /\ UNCHANGED htmlVars
  /\ UNCHANGED pageVars

\* The Prev button, the left arrow key or a swipe to the right.
PrevSpread ==
  /\ binderPage.loaded
  /\ binderPage' = prevSpread(binderPage, binderHtml.max)
  /\ UNCHANGED <<binderDir, binderHtml>>
  /\ UNCHANGED runVars
  /\ UNCHANGED parseVars
  /\ UNCHANGED htmlVars
  /\ UNCHANGED pageVars

InitBinder ==
  /\ binderDir \in
       {NoBinderDir} \cup {[exists |-> TRUE,
    entries |-> S] : S \in SUBSET BinderNames}
  /\ binderHtml = NoBinderHtml
  /\ binderPage = NoBinderPage
  /\ PageOff
  /\ fonts = {}
  /\ rendered = NoPage
  /\ events = <<>>
  /\ imagesDir = "dir"
  /\ images = [f \in Catalogue |-> NoFile]
  /\ thumbsDir = "absent"
  /\ thumbs = [f \in Catalogue |-> NoFile]
  /\ html = NoHtml
  /\ pc = "idle"
  /\ todo = <<>>
  /\ log = {}
  /\ status = "none"
  /\ filename = <<>>
  /\ pstage = "off"
  /\ parsed = NoParse
  /\ pevent = NoEvent
  /\ runs = 0

NextBinder == RunBinder \/ LoadPage \/ OpenCover \/ NextSpread \/ PrevSpread

SpecBinder == InitBinder /\ [][NextBinder]_vars

\* The values the slider can be dragged to: the steps of 2 from 0 up to max.
SliderSteps(max) == {v \in 0..max : v % 2 = 0}

\* The input handler of the slider, for the value the slider was brought to.
sliderInput(p, val, max) ==
  IF val = 0
  THEN renderSpread([p EXCEPT !.slider = val, !.firstSpread = TRUE], max)
  ELSE renderSpread([p EXCEPT !.slider = val, !.firstSpread = FALSE,
                              !.currentIndex = val], max)

\* The slider, shown once the cover is open, is brought to another of its
\* steps.
SliderInput ==
  /\ binderPage.loaded
  /\ binderPage.open
  /\ \E val \in SliderSteps(binderHtml.max) \ {binderPage.slider} :
       binderPage' = sliderInput(binderPage, val, binderHtml.max)
  /\ UNCHANGED <<binderDir, binderHtml>>
  /\ UNCHANGED runVars
  /\ UNCHANGED parseVars
  /\ UNCHANGED htmlVars
  /\ UNCHANGED pageVars

NextSlider == NextBinder \/ SliderInput

SpecSlider == InitBinder /\ [][NextSlider]_vars

\* ------------------------------------- the overlay and the year navigation

\* a || b of the script, on strings and null.
Or(a, b) == IF a # <<>> THEN a ELSE b

ArchivePhoto == <<"A", "r", "c", "h", "i", "v", "e", " ", "p", "h", "o", "t", "o">>

\* A path of an event as the page has it: the string, or null.
Src(path) == IF path = NoPath THEN <<>> ELSE PathString(path)

\* openFullscreen(src, alt, jxlSrc)
openFullscreen(o, src, alt, jxlSrc) ==
  IF ~o.ready THEN o
  ELSE [o EXCEPT !.srcset = jxlSrc,
                 !.src = src,
                 !.alt = Or(alt, NoOverlay.alt),
                 !.visible = TRUE,
                 !.opened = src]

\* closeFullscreen(): the overlay is hidden, and a cleanup is set for 350 ms
\* later.
closeFullscreen(o) ==
  IF ~o.ready THEN o
  ELSE [o EXCEPT !.msgHidden = TRUE, !.visible = FALSE, !.timers = @ + 1]

\* A cleanup that clears the sources whether the overlay is visible or not.
cleanup_unchecked(o) ==
  [o EXCEPT !.timers = @ - 1, !.srcset = <<>>, !.src = <<>>]

\* The function closeFullscreen gave to setTimeout.
cleanup(o) ==
  IF ~o.visible
  THEN [o EXCEPT !.timers = @ - 1, !.srcset = <<>>, !.src = <<>>]
  ELSE [o EXCEPT !.timers = @ - 1]

\* The image click handler of the card of an event.
openEvent(o, item) ==
  openFullscreen(o, Or(Src(item.full_image), Src(item.image)),
                 Or(item.title, Or(item.file_label, ArchivePhoto)),
                 Src(item.jxl_image))

\* showIntroOverlay()
showIntroOverlay(o, evs) ==
  IF evs = <<>> THEN o
  ELSE openEvent([o EXCEPT !.msgHidden = FALSE], evs[1])

\* The years of the events that have one.
YearsOf(evs) == {evs[i].year : i \in {j \in 1..Len(evs) : evs[j].year # NoYear}}

\* The events of a year, by their places in the list.
EntriesOf(evs, year) == {i \in 1..Len(evs) : evs[i].year = year}

\* renderTimeline(events): yearLoadState is emptied and filled, and every
\* thumbnail of an event with a year gets its load and error listeners.
renderTimeline(nav, evs) ==
  [nav EXCEPT
     !.yearLoadState =
        [year \in YearsOf(evs) |->
           [total |-> Cardinality(EntriesOf(evs, year)), loaded |-> 0,
            ready |-> FALSE]],
     !.thumbnails = [i \in 1..Len(evs) |-> "pending"]]

\* renderTimelineNav(events): one disabled pill for each year.
renderTimelineNav(nav, evs) ==
  [nav EXCEPT !.pills = [year \in YearsOf(evs) |-> [disabled |-> TRUE]]]

\* A markYearImageLoaded that counts the thumbnails of all years together.
markYearImageLoaded_any_year(nav, yearStr) ==
  IF yearStr \notin DOMAIN nav.yearLoadState THEN nav
  ELSE LET all == [year \in DOMAIN nav.yearLoadState |->
                     [nav.yearLoadState[year] EXCEPT !.loaded = @ + 1]]
           now == all[yearStr].ready = FALSE
                    /\ all[yearStr].loaded >= all[yearStr].total
       IN [nav EXCEPT
             !.yearLoadState =
                IF now THEN [all EXCEPT ![yearStr].ready = TRUE] ELSE all,
             !.pills =
                IF now /\ yearStr \in DOMAIN nav.pills
                THEN [nav.pills EXCEPT ![yearStr].disabled = FALSE]
                ELSE nav.pills]

\* markYearImageLoaded(yearStr)
markYearImageLoaded(nav, yearStr) ==
  IF yearStr \notin DOMAIN nav.yearLoadState THEN nav
  ELSE LET state == [nav.yearLoadState[yearStr] EXCEPT !.loaded = @ + 1]
           now   == ~state.ready /\ state.loaded >= state.total
       IN [nav EXCEPT
             !.yearLoadState[yearStr] =
                IF now THEN [state EXCEPT !.ready = TRUE] ELSE state,
             !.pills =
                IF now /\ yearStr \in DOMAIN nav.pills
                THEN [nav.pills EXCEPT ![yearStr].disabled = FALSE]
                ELSE nav.pills]

\* ------------------------------------------- the accessibility controls

\* The values of the typeface select.
FontModes ==
  {"default", "atkinson", "arial", "tahoma", "trebuchet", "times", "lexend",
   "opendyslexic"}

\* The three theme classes of the body.
ThemeClasses == {"theme-dark", "theme-light", "high-contrast"}

\* What the item a11y_settings may hold when the page is opened: text that
\* is no JSON, an object with some of the settings (one with a scale of 0,
\* one with the light theme and high contrast both on), the settings a page
\* stored.
StoredItems ==
  {NoItem,
   [kind |-> "garbage", value |-> <<>>],
   [kind |-> "object", value |-> [contrast |-> TRUE]],
   [kind |-> "object", value |-> [scale |-> 0, light |-> TRUE]],
   [kind |-> "object", value |-> [light |-> TRUE, contrast |-> TRUE]],
   [kind |-> "object", value |-> [DefaultSettings EXCEPT !.font = "lexend"]]}

\* loadA11ySettings(): the defaults, the settings of a stored object over
\* them.
loadA11ySettings(item) ==
  IF item.kind # "object" THEN DefaultSettings
  ELSE [k \in DOMAIN DefaultSettings |->
          IF k \in DOMAIN item.value THEN item.value[k] ELSE DefaultSettings[k]]

\* saveA11ySettings(settings): the item is written, unless localStorage
\* refuses the write.
saveA11ySettings(store, settings) ==
  IF store.ok THEN [store EXCEPT !.item = [kind |-> "object", value |-> settings]]
  ELSE store

\* settings.scale || 1
ScaleOr1(scale) == IF scale = 0 THEN 100 ELSE scale

\* Math.max(a, b)
Max(a, b) == IF a > b THEN a ELSE b

\* An applyA11ySettings that adds the class of the theme without removing
\* the classes of the other themes.
applyA11ySettings_no_remove(page, settings) ==
  [page EXCEPT
     !.fontScale = Min(180, Max(85, ScaleOr1(settings.scale))),
     !.bodyClasses =
        page.bodyClasses
          \cup {IF settings.contrast THEN "high-contrast"
                ELSE IF settings.light THEN "theme-light" ELSE "theme-dark"},
     !.invertImages = IF settings.invert_images THEN "1" ELSE "0",
     !.fontSelect = settings.font,
     !.themeDisabled = settings.contrast]

\* applyA11ySettings(settings)
applyA11ySettings(page, settings) ==
  [page EXCEPT
     !.fontScale = Min(180, Max(85, ScaleOr1(settings.scale))),
     !.bodyClasses =
        (page.bodyClasses \ ThemeClasses)
          \cup {IF settings.contrast THEN "high-contrast"
                ELSE IF settings.light THEN "theme-light" ELSE "theme-dark"},
     !.invertImages = IF settings.invert_images THEN "1" ELSE "0",
     !.fontSelect = settings.font,
     !.themeDisabled = settings.contrast]

\* What a handler does after it has changed a11y: applyA11ySettings(a11y);
\* saveA11ySettings(a11y).
ApplyAndSave(settings) ==
  /\ timelinePage' = applyA11ySettings([timelinePage EXCEPT !.a11y = settings], settings)
  /\ a11yStore' = saveA11ySettings(a11yStore, settings)

\* DOMContentLoaded: the overlay is looked up, the settings are loaded and
\* applied, the timeline and its navigation are rendered from the events of
\* the page, and the overlay opens on the first event.  The timers of a page
\* that was open before are gone with it.
PageLoad ==
  /\ timelinePage' =
       applyA11ySettings([NoTimelinePage EXCEPT
                            !.loaded = TRUE,
                            !.a11y = loadA11ySettings(a11yStore.item)],
                         loadA11ySettings(a11yStore.item))
  /\ yearNav' = renderTimelineNav(renderTimeline(NoYearNav, html.events), html.events)
  /\ overlay' = showIntroOverlay([NoOverlay EXCEPT !.ready = TRUE], html.events)
  /\ UNCHANGED a11yStore
  /\ UNCHANGED runVars
  /\ UNCHANGED parseVars
  /\ UNCHANGED htmlVars
  /\ UNCHANGED binderVars

\* A click on A+.
ClickTextInc ==
  /\ timelinePage.loaded
  /\ ApplyAndSave([timelinePage.a11y EXCEPT
                     !.scale = Min(180, ScaleOr1(timelinePage.a11y.scale) + 10)])
  /\ UNCHANGED viewVars
  /\ UNCHANGED runVars
  /\ UNCHANGED parseVars
  /\ UNCHANGED htmlVars
  /\ UNCHANGED binderVars

\* A click on A-.
ClickTextDec ==
  /\ timelinePage.loaded
  /\ ApplyAndSave([timelinePage.a11y EXCEPT
                     !.scale = Max(85, ScaleOr1(timelinePage.a11y.scale) - 10)])
  /\ UNCHANGED viewVars
  /\ UNCHANGED runVars
  /\ UNCHANGED parseVars
  /\ UNCHANGED htmlVars
  /\ UNCHANGED binderVars

\* A click on the contrast button.
ClickContrast ==
  /\ timelinePage.loaded
  /\ ApplyAndSave([timelinePage.a11y EXCEPT !.contrast = ~timelinePage.a11y.contrast])
  /\ UNCHANGED viewVars
  /\ UNCHANGED runVars
  /\ UNCHANGED parseVars
  /\ UNCHANGED htmlVars
  /\ UNCHANGED binderVars

\* A theme handler without the lock of high contrast.
ClickTheme_unlocked ==
  /\ timelinePage.loaded
  /\ ApplyAndSave([timelinePage.a11y EXCEPT !.light = ~timelinePage.a11y.light])
  /\ UNCHANGED viewVars
  /\ UNCHANGED runVars
  /\ UNCHANGED parseVars
  /\ UNCHANGED htmlVars
  /\ UNCHANGED binderVars

\* A click on the theme button: the handler returns when high contrast is on.
ClickTheme ==
  /\ timelinePage.loaded
  /\ IF timelinePage.a11y.contrast
     THEN UNCHANGED <<timelinePage, a11yStore>>
     ELSE ApplyAndSave([timelinePage.a11y EXCEPT !.light = ~timelinePage.a11y.light])
  /\ UNCHANGED viewVars
  /\ UNCHANGED runVars
  /\ UNCHANGED parseVars
  /\ UNCHANGED htmlVars
  /\ UNCHANGED binderVars

\* The typeface select changes to one of its options.
ChangeFont ==
  /\ timelinePage.loaded
  /\ \E mode \in FontModes : ApplyAndSave([timelinePage.a11y EXCEPT !.font = mode])
  /\ UNCHANGED viewVars
  /\ UNCHANGED runVars
  /\ UNCHANGED parseVars
  /\ UNCHANGED htmlVars
  /\ UNCHANGED binderVars

\* A click on the invert button.
ClickInvert ==
  /\ timelinePage.loaded
  /\ ApplyAndSave([timelinePage.a11y EXCEPT
                     !.invert_images = ~timelinePage.a11y.invert_images])
  /\ UNCHANGED viewVars
  /\ UNCHANGED runVars
  /\ UNCHANGED parseVars
  /\ UNCHANGED htmlVars
  /\ UNCHANGED binderVars

InitA11y ==
  /\ a11yStore \in [ok : BOOLEAN, item : StoredItems]
  /\ timelinePage = NoTimelinePage
  /\ overlay = NoOverlay
  /\ yearNav = NoYearNav
  /\ BinderOff
  /\ fonts = {}
  /\ rendered = NoPage
  /\ events = <<>>
  /\ imagesDir = "dir"
  /\ images = [f \in Catalogue |-> NoFile]
  /\ thumbsDir = "absent"
  /\ thumbs = [f \in Catalogue |-> NoFile]
  /\ html = NoHtml
  /\ pc = "idle"
  /\ todo = <<>>
  /\ log = {}
  /\ status = "none"
  /\ filename = <<>>
  /\ pstage = "off"
  /\ parsed = NoParse
  /\ pevent = NoEvent
  /\ runs = 0

NextA11y ==
  \/ PageLoad
  \/ ClickTextInc
  \/ ClickTextDec
  \/ ClickContrast
  \/ ClickTheme
  \/ ChangeFont
  \/ ClickInvert

SpecA11y == InitA11y /\ [][NextA11y]_vars

\* ------------------------------------------------- the page in a browser

\* The names of the images of the catalogue.
Gallery == {f \in Catalogue : lower(suffix(f)) \in ImageExts}

\* The events a run writes into the page for these images, each with a jxl
\* sidecar or none with one.
PageEvents(S, withJxl) ==
  LET names  == SortNames(S)
      evs    == [i \in 1..Len(names) |->
                   MakeEvent(names[i], <<>>,
                             IF withJxl
                             THEN <<"images", splitext(names[i]) \o JxlExt>>
                             ELSE NoPath)]
      sorted == SortEvents(evs)
  IN [i \in 1..Len(sorted) |-> PopSortKey(sorted[i])]

\* A click on the thumbnail of an event.
ClickImage ==
  /\ timelinePage.loaded
  /\ \E i \in 1..Len(html.events) : overlay' = openEvent(overlay, html.events[i])
  /\ UNCHANGED <<a11yStore, timelinePage, yearNav>>
  /\ UNCHANGED runVars
  /\ UNCHANGED parseVars
  /\ UNCHANGED htmlVars
  /\ UNCHANGED binderVars

\* A click on the overlay, or the Escape key.
CloseFullscreen ==
  /\ timelinePage.loaded
  /\ overlay.timers < MaxTimers
  /\ overlay' = closeFullscreen(overlay)
  /\ UNCHANGED <<a11yStore, timelinePage, yearNav>>
  /\ UNCHANGED runVars
  /\ UNCHANGED parseVars
  /\ UNCHANGED htmlVars
  /\ UNCHANGED binderVars

\* The oldest pending cleanup timer fires.
CleanupTimer ==
  /\ overlay.timers > 0
  /\ overlay' = cleanup(overlay)
  /\ UNCHANGED <<a11yStore, timelinePage, yearNav>>
  /\ UNCHANGED runVars
  /\ UNCHANGED parseVars
  /\ UNCHANGED htmlVars
  /\ UNCHANGED binderVars

\* The load or the error event of a thumbnail arrives; the thumbnails of the
\* events without a year have no listener for it.
ThumbnailSettles ==
  /\ timelinePage.loaded
  /\ \E i \in 1..Len(html.events) : \E outcome \in {"load", "error"} :
       /\ yearNav.thumbnails[i] = "pending"
       /\ yearNav' =
            IF html.events[i].year # NoYear
            THEN markYearImageLoaded(
                   [yearNav EXCEPT !.thumbnails[i] = outcome], html.events[i].year)
            ELSE [yearNav EXCEPT !.thumbnails[i] = outcome]
  /\ UNCHANGED <<a11yStore, timelinePage, overlay>>
  /\ UNCHANGED runVars
  /\ UNCHANGED parseVars
  /\ UNCHANGED htmlVars
  /\ UNCHANGED binderVars

\* timeline.html was written by a run over some images of the catalogue and
\* is about to be opened.
InitView ==
  /\ \E S \in SUBSET Gallery : \E withJxl \in BOOLEAN :
       /\ Cardinality(S) <= MaxFiles + 1
       /\ html = [exists |-> TRUE, events |-> PageEvents(S, withJxl)]
  /\ PageOff
  /\ BinderOff
  /\ fonts = {}
  /\ rendered = NoPage
  /\ events = <<>>
  /\ imagesDir = "dir"
  /\ images = [f \in Catalogue |-> NoFile]
  /\ thumbsDir = "absent"
  /\ thumbs = [f \in Catalogue |-> NoFile]
  /\ pc = "idle"
  /\ todo = <<>>
  /\ log = {}
  /\ status = "none"
  /\ filename = <<>>
  /\ pstage = "off"
  /\ parsed = NoParse
  /\ pevent = NoEvent
  /\ runs = 0

NextOverlay == PageLoad \/ ClickImage \/ CloseFullscreen \/ CleanupTimer

SpecOverlay == InitView /\ [][NextOverlay]_vars

NextNav == PageLoad \/ ThumbnailSettles

SpecNav == InitView /\ [][NextNav]_vars

\* ----------------------------------------------- vocabulary of the claims

\* A file name without its extension: the name up to its last dot.
StemOf(name) == SubSeq(name, 1, LastDot(name) - 1)

\* The file name an event was made from.
NameOf(ev) == ev.full_image[2]

\* The index of the first separator of s after index k, Len(s) + 1 if none.
SepAfter(s, k) ==
  IF \E i \in (k + 1)..Len(s) : IsSep(s[i])
  THEN CHOOSE i \in (k + 1)..Len(s) :
         IsSep(s[i]) /\ \A j \in (k + 1)..(i - 1) : ~IsSep(s[j])
  ELSE Len(s) + 1

\* The part of s strictly between the indices a and b.
Between(s, a, b) == IF a + 1 > b - 1 THEN <<>> ELSE SubSeq(s, a + 1, b - 1)

\* The first three separator-delimited fields of s, and what follows them.
Field1(s) == Between(s, 0, SepAfter(s, 0))
Field2(s) == Between(s, SepAfter(s, 0), SepAfter(s, SepAfter(s, 0)))
Field3(s) ==
  Between(s, SepAfter(s, SepAfter(s, 0)), SepAfter(s, SepAfter(s, SepAfter(s, 0))))
After1(s) == Between(s, SepAfter(s, 0), Len(s) + 1)
After2(s) == Between(s, SepAfter(s, SepAfter(s, 0)), Len(s) + 1)
After3(s) == Between(s, SepAfter(s, SepAfter(s, SepAfter(s, 0))), Len(s) + 1)

\* A field of lo to hi decimal digits.
IsNumber(f, lo, hi) == Len(f) >= lo /\ Len(f) <= hi /\ AllDigits(f)

\* The separator that ends field 1 (field 2) is a hyphen.
Hyphen1(s) == SepAfter(s, 0) <= Len(s) /\ s[SepAfter(s, 0)] = "-"
Hyphen2(s) ==
  SepAfter(s, SepAfter(s, 0)) <= Len(s) /\ s[SepAfter(s, SepAfter(s, 0))] = "-"

\* The four structured forms of a stem.
FormYMD(s) ==
  IsNumber(Field1(s), 4, 4) /\ IsNumber(Field2(s), 1, 2) /\ IsNumber(Field3(s), 1, 2)
FormDMY(s) ==
  /\ IsNumber(Field1(s), 1, 2) /\ IsNumber(Field2(s), 1, 2) /\ IsNumber(Field3(s), 4, 4)
  /\ Hyphen1(s) /\ Hyphen2(s)
FormMY(s) == IsNumber(Field1(s), 1, 2) /\ IsNumber(Field2(s), 4, 4) /\ Hyphen1(s)
FormY(s) == IsNumber(Field1(s), 4, 4)

\* s contains a run of four digits that starts with 19 or 20.
HasYearRun(s) == \E i \in 1..Len(s) : YearAt(s, i)

\* A field of one or two digits, written with two.
Pad2(f) == IF Len(f) = 1 THEN <<"0">> \o f ELSE f

MonthDays == <<31, 28, 31, 30, 31, 30, 31, 31, 30, 31, 30, 31>>

\* <<y, m, d>> is a date of the proleptic Gregorian calendar, years 1 to 9999.
IsCalendarDate(y, m, d) ==
  /\ y >= 1 /\ y <= 9999
  /\ m >= 1 /\ m <= 12
  /\ d >= 1
  /\ d <= MonthDays[m]
          + (IF m = 2 /\ ((y % 4 = 0 /\ y % 100 # 0) \/ y % 400 = 0) THEN 1 ELSE 0)

\* The calendar order of two dates: a is not after b.
DateLeq(a, b) ==
  \/ a[1] < b[1]
  \/ a[1] = b[1] /\ a[2] < b[2]
  \/ a[1] = b[1] /\ a[2] = b[2] /\ a[3] <= b[3]

\* A run has completed and collect_events has returned its list.
RunCompleted == pc = "idle" /\ status = "ok"

\* The parser has returned for the file name.
Parsed == pstage \in {"parsed", "derived"}

\* ------------------------------------------------------------------- C1

\* The date the parser gives each file name of the catalogue.
CatalogueDates == [f \in Catalogue |-> parse_date_from_filename(f).dt]

\* The date the parser gives the file of an event.
DateOf(ev) == CatalogueDates[NameOf(ev)]

\* C1: in the list collect_events returns, every event whose file name yields
\* a date precedes every event whose file name yields none, and the dated
\* events are in non-decreasing order of their calendar dates; the ISO sort
\* keys of the dated events, compared as strings, order as their dates do.
C1_DatedFirstInDateOrder ==
  LET d == [i \in 1..Len(events) |-> DateOf(events[i])]
  IN /\ RunCompleted =>
          \A i \in 1..Len(events) : \A j \in (i + 1)..Len(events) :
            /\ d[j] # NoDate => d[i] # NoDate
            /\ (d[i] # NoDate /\ d[j] # NoDate) => DateLeq(d[i], d[j])
     /\ (pc = "collect" /\ todo = <<>>) =>
          \A i \in 1..Len(events) : \A j \in 1..Len(events) :
            (events[i].sort_key # NoKey /\ events[j].sort_key # NoKey)
              => (StrLess(events[i].sort_key, events[j].sort_key)
                    <=> (DateLeq(d[i], d[j]) /\ d[i] # d[j]))

\* A completed run whose sort moved a later-scanned file in front of an
\* earlier-scanned one: two dated events, the first with the greater name.
C1_Witness ==
  /\ RunCompleted
  /\ Len(events) = 2
  /\ DateOf(events[1]) # NoDate
  /\ DateOf(events[2]) # NoDate
  /\ DateOf(events[1]) # DateOf(events[2])
  /\ StrLess(NameOf(events[2]), NameOf(events[1]))

\* ------------------------------------------------------------------- C2

\* Pattern k (1 to 6, in the documented order) matches the stem.
PatternMatches(k, s) ==
  IF k = 1 THEN FormYMD(s)
  ELSE IF k = 2 THEN FormDMY(s)
  ELSE IF k = 3 THEN FormMY(s)
  ELSE IF k = 4 THEN FormY(s)
  ELSE IF k = 5 THEN HasYearRun(s)
  ELSE TRUE

\* What pattern k, taken alone, gives for a stem it matches.
PatternResult(k, s) ==
  IF k = 1 THEN ParseYMD(s)
  ELSE IF k = 2 THEN ParseDMY(s)
  ELSE IF k = 3 THEN ParseMY(s)
  ELSE IF k = 4 THEN ParseY(s)
  ELSE IF k = 5 THEN ParseAnyYear(s)
  ELSE ParseNone(s)

\* C2: the result is that of the first pattern, in the order 1..6, that
\* matches, and never the differing result of a later matching pattern.
C2_FirstMatchWins ==
  Parsed =>
    LET s == StemOf(filename)
        matches == [k \in 1..6 |-> PatternMatches(k, s)]
    IN \A k \in 1..6 :
         (matches[k] /\ \A h \in 1..(k - 1) : ~matches[h])
         => /\ parsed = PatternResult(k, s)
            /\ \A j \in (k + 1)..6 :
                 (matches[j] /\ PatternResult(j, s) # PatternResult(k, s))
                 => parsed # PatternResult(j, s)

\* A parsed name that matches the YYYY-MM-DD prefix, the YYYY prefix and the
\* year-anywhere pattern, the three giving three different results.
C2_Witness ==
  /\ Parsed
  /\ PatternMatches(1, StemOf(filename))
  /\ PatternMatches(4, StemOf(filename))
  /\ PatternMatches(5, StemOf(filename))
  /\ ParseYMD(StemOf(filename)) # ParseY(StemOf(filename))
  /\ ParseY(StemOf(filename)) # ParseAnyYear(StemOf(filename))
  /\ parsed.dt # NoDate
  /\ parsed.dt[2] # 1

\* ------------------------------------------------------------------- C3

\* The numbers of the first three fields of a stem.
Num1(s) == ToInt(Field1(s))
Num2(s) == ToInt(Field2(s))
Num3(s) == ToInt(Field3(s))

Hyphen == <<"-">>

Briefing == <<"b", "r", "i", "e", "f", "i", "n", "g">>

\* C3: a name YYYY-MM-DD-rest (separators - or _) of a valid calendar date
\* gives that date, the label YYYY-MM-DD with two-digit month and day, and
\* rest as the slug; a name DD-MM-YYYY-rest of a valid calendar date gives
\* the date of year YYYY, month MM, day DD and the label DD-MM-YYYY; the
\* title of the slug "briefing" is "Briefing".
C3_ValidDatePrefixes ==
  Parsed =>
    LET s == StemOf(filename)
    IN /\ (FormYMD(s) /\ IsCalendarDate(Num1(s), Num2(s), Num3(s)))
            => /\ parsed.dt = <<Num1(s), Num2(s), Num3(s)>>
               /\ parsed.label
                    = Field1(s) \o Hyphen \o Pad2(Field2(s)) \o Hyphen \o Pad2(Field3(s))
               /\ parsed.rest = After3(s)
       /\ (FormDMY(s) /\ IsCalendarDate(Num3(s), Num2(s), Num1(s)))
            => /\ parsed.dt = <<Num3(s), Num2(s), Num1(s)>>
               /\ parsed.label
                    = Pad2(Field1(s)) \o Hyphen \o Pad2(Field2(s)) \o Hyphen \o Field3(s)
       /\ (pstage = "derived" /\ parsed.rest = Briefing)
            => pevent.title = <<"B", "r", "i", "e", "f", "i", "n", "g">>

\* A parsed name YYYY-M-DD-rest with a one-digit month, a slug, and the date
\* 29 February 2024.
C3_Witness ==
  /\ Parsed
  /\ FormYMD(StemOf(filename))
  /\ Len(Field2(StemOf(filename))) = 1
  /\ After3(StemOf(filename)) # <<>>
  /\ parsed.dt = <<2024, 2, 29>>

\* ------------------------------------------------------------------- C4

\* The stem has a structured form whose digits are no calendar date, the
\* form being the first, in the order of the patterns, that the stem has.
InvalidYMD(s) == FormYMD(s) /\ ~IsCalendarDate(Num1(s), Num2(s), Num3(s))
InvalidDMY(s) == FormDMY(s) /\ ~IsCalendarDate(Num3(s), Num2(s), Num1(s))
InvalidMY(s) == FormMY(s) /\ ~IsCalendarDate(Num2(s), Num1(s), 1)
InvalidY(s) == FormY(s) /\ ~FormYMD(s) /\ ~IsCalendarDate(Num1(s), 1, 1)

InvalidStructured(s) == InvalidYMD(s) \/ InvalidDMY(s) \/ InvalidMY(s) \/ InvalidY(s)

\* The key of an event with the latest date there is.
LatestDatedKey == <<0, isoformat(<<9999, 12, 31>>)>>

\* C4: a name that matches a structured pattern with digits that are no
\* calendar date gives no date and the non-empty label made of the matched
\* digits; its event is produced, with the sort key of the date-less events,
\* which sorts after every dated key.
C4_InvalidDateKeepsLabel ==
  Parsed =>
    LET s   == StemOf(filename)
        ymd == InvalidYMD(s)
        dmy == InvalidDMY(s)
        my  == InvalidMY(s)
        y   == InvalidY(s)
    IN /\ (ymd \/ dmy \/ my \/ y) => (parsed.dt = NoDate /\ parsed.label # <<>>)
       /\ ymd
            => parsed.label
                 = Field1(s) \o Hyphen \o Pad2(Field2(s)) \o Hyphen \o Pad2(Field3(s))
       /\ dmy
            => parsed.label
                 = Pad2(Field1(s)) \o Hyphen \o Pad2(Field2(s)) \o Hyphen \o Field3(s)
       /\ my => parsed.label = Pad2(Field1(s)) \o Hyphen \o Field2(s)
       /\ y => parsed.label = Field1(s)
       /\ ((ymd \/ dmy \/ my \/ y) /\ pstage = "derived")
            => /\ pevent.image = <<"images", "thumbs", filename>>
               /\ pevent.date_label = parsed.label
               /\ pevent.sort_key = NoKey
               /\ KeyLess(LatestDatedKey, SortKey(pevent))

\* The event of a name YYYY-MM-DD whose year is a leap year or not and whose
\* day, 29 February, does not exist in that year.
C4_Witness ==
  /\ pstage = "derived"
  /\ FormYMD(StemOf(filename))
  /\ Num1(StemOf(filename)) = 1945
  /\ Num2(StemOf(filename)) = 2
  /\ Num3(StemOf(filename)) = 29
  /\ parsed.dt = NoDate
  /\ pevent.sort_key = NoKey

\* ------------------------------------------------------------------- C5

\* The stem has none of the four structured forms.
Unstructured(s) == ~FormYMD(s) /\ ~FormDMY(s) /\ ~FormMY(s) /\ ~FormY(s)

\* The index of the leftmost 19xx/20xx run of s.
FirstYearIndex(s) ==
  CHOOSE i \in 1..Len(s) : YearAt(s, i) /\ \A j \in 1..(i - 1) : ~YearAt(s, j)

\* The number written by the four digits of s at index i.
NumberAt(s, i) ==
  1000 * DigitVal(s[i]) + 100 * DigitVal(s[i + 1]) + 10 * DigitVal(s[i + 2])
    + DigitVal(s[i + 3])

\* The sequence of the characters of s at the indices K, in their order.
Pick(s, K) ==
  [r \in 1..Cardinality(K) |->
     s[CHOOSE i \in K : Cardinality({j \in K : j <= i}) = r]]

\* s without the four characters at index i.
WithoutRunAt(s, i) == Pick(s, {k \in 1..Len(s) : k < i \/ k > i + 3})

\* The start indices of the occurrences of the four characters y in s, taken
\* from the left without overlap, from index k on.
RECURSIVE OccurrencesFrom(_, _, _)
OccurrencesFrom(s, y, k) ==
  IF k + 3 > Len(s) THEN {}
  ELSE IF SubSeq(s, k, k + 3) = y THEN {k} \cup OccurrencesFrom(s, y, k + 4)
  ELSE OccurrencesFrom(s, y, k + 1)

\* s without every such occurrence of y.
WithoutEvery(s, y) ==
  Pick(s, {k \in 1..Len(s) :
             \A o \in OccurrencesFrom(s, y, 1) : k < o \/ k > o + 3})

\* s without its leading and its trailing separators.
Trimmed(s) ==
  Pick(s, {k \in 1..Len(s) :
             /\ \E j \in 1..k : ~IsSep(s[j])
             /\ \E j \in k..Len(s) : ~IsSep(s[j])})

\* The case of the claim: a parsed name without structured prefix that
\* contains a 19xx/20xx run.
YearAnywhereCase == Parsed /\ Unstructured(StemOf(filename)) /\ HasYearRun(StemOf(filename))

\* C5 as stated: the date is 1 January of the year found, the label is that
\* year, and the slug is the stem with the year substring that was found
\* removed and the leading and trailing separators trimmed.
C5_YearSubstringRemoved ==
  YearAnywhereCase =>
    LET s == StemOf(filename)
        i == FirstYearIndex(s)
    IN /\ parsed.dt = <<NumberAt(s, i), 1, 1>>
       /\ parsed.label = SubSeq(s, i, i + 3)
       /\ parsed.rest = Trimmed(WithoutRunAt(s, i))

\* C5, amended: the date is 1 January of the leftmost year found, the label
\* is that year, and the slug is the stem with every occurrence of the four
\* digits of that year removed and the leading and trailing separators
\* trimmed.
C5_EveryOccurrenceRemoved ==
  YearAnywhereCase =>
    LET s == StemOf(filename)
        i == FirstYearIndex(s)
    IN /\ parsed.dt = <<NumberAt(s, i), 1, 1>>
       /\ parsed.label = SubSeq(s, i, i + 3)
       /\ parsed.rest = Trimmed(WithoutEvery(s, SubSeq(s, i, i + 3)))

\* A parsed name of the case in which the year is written twice and its
\* removal leaves a separator at the end of the slug.
C5_Witness ==
  /\ YearAnywhereCase
  /\ Cardinality(OccurrencesFrom(StemOf(filename), parsed.label, 1)) = 2
  /\ IsSep(StemOf(filename)[Len(StemOf(filename)) - 4])
  /\ YearAt(StemOf(filename), Len(StemOf(filename)) - 3)
  /\ parsed.rest # <<>>

\* ------------------------------------------------------------------- C6

\* The indices of s at which a word (a run of characters that are no
\* separators) starts.
WordStarts(s) == {k \in 1..Len(s) : ~IsSep(s[k]) /\ (k = 1 \/ IsSep(s[k - 1]))}

\* The words of s joined by single spaces, the first character of each word
\* in upper case.
TitleOfWords(s) ==
  LET t    == Trimmed(s)
      keep == {k \in 1..Len(t) : ~IsSep(t[k]) \/ ~IsSep(t[k - 1])}
      u    == [k \in 1..Len(t) |->
                 IF IsSep(t[k]) THEN " "
                 ELSE IF k \in WordStarts(t) THEN Upper(t[k])
                 ELSE t[k]]
  IN Pick(u, keep)

\* The case of the claim: a parsed name that matches none of the patterns.
NoPatternCase == Parsed /\ Unstructured(StemOf(filename)) /\ ~HasYearRun(StemOf(filename))

\* C6: a name that matches none of the five patterns gives no date, the name
\* without its extension as label and an empty slug; the title of its event
\* is the humanized stem: its words joined by single spaces, each with its
\* first character in upper case; notes.png gives "notes" and "Notes".
C6_NoPatternFallsBackToStem ==
  /\ NoPatternCase
       => /\ parsed = [dt |-> NoDate, label |-> StemOf(filename), rest |-> <<>>]
          /\ pstage = "derived" => pevent.title = TitleOfWords(StemOf(filename))
  /\ (pstage = "derived" /\ filename = <<"n", "o", "t", "e", "s", ".", "p",
                                         "n", "g">>)
       => /\ parsed.label = <<"n", "o", "t", "e", "s">>
          /\ pevent.title = <<"N", "o", "t", "e", "s">>

\* The event of a name of the case whose stem has leading, trailing and
\* repeated separators and more than one word.
C6_Witness ==
  /\ NoPatternCase
  /\ pstage = "derived"
  /\ IsSep(StemOf(filename)[Len(StemOf(filename))])
  /\ \E k \in 2..Len(StemOf(filename)) :
       IsSep(StemOf(filename)[k]) /\ IsSep(StemOf(filename)[k - 1])
  /\ Cardinality(WordStarts(StemOf(filename))) > 1
  /\ Len(pevent.title) < Len(StemOf(filename)) - 1

\* ------------------------------------------------------------------- C7

\* The year written by the leftmost 19xx/20xx run of s, absent if none.
FirstYearOf(s) == IF HasYearRun(s) THEN NumberAt(s, FirstYearIndex(s)) ELSE NoYear

\* C7: the year of an event is the year of the parsed date if there is one,
\* else the first 19xx/20xx run of the date label, else the first such run
\* of the stem, else absent; so an event with a parsed date has a year, and
\* an event without a year has no parsed date.
C7_YearFallbacks ==
  pstage = "derived" =>
    /\ pevent.year
         = (IF parsed.dt # NoDate THEN parsed.dt[1]
            ELSE IF HasYearRun(parsed.label) THEN FirstYearOf(parsed.label)
            ELSE FirstYearOf(StemOf(filename)))
    /\ parsed.dt # NoDate => pevent.year # NoYear
    /\ pevent.year = NoYear => parsed.dt = NoDate

\* An event without parsed date whose label has no year and whose year is
\* the one found in the stem.
C7_Witness ==
  /\ pstage = "derived"
  /\ parsed.dt = NoDate
  /\ ~HasYearRun(parsed.label)
  /\ HasYearRun(StemOf(filename))
  /\ pevent.year = 2024

\* ------------------------------------------------------------------- C8

\* C8: no step writes to a thumbnail file that exists: once
\* images/thumbs/<filename> exists its bytes stay as they are, also in the
\* runs made after the bytes of the source image have changed.
C8_ExistingThumbnailNeverWritten ==
  [][\A f \in Catalogue : thumbs[f] # NoFile => thumbs'[f] = thumbs[f]]_vars

\* The second run has handled an image whose bytes were replaced after the
\* first run made its thumbnail, and the thumbnail is still the first one.
C8_Witness ==
  /\ pc = "collect"
  /\ runs = 2
  /\ \E f \in Catalogue :
       /\ images[f] = <<"image", 2>>
       /\ thumbs[f] = <<"thumb", 1>>
       /\ \E i \in 1..Len(events) : NameOf(events[i]) = f

\* ------------------------------------------------------------------- C9

\* The names with an accepted extension, in any case of letters.
ImageNames == {f \in Catalogue : lower(suffix(f)) \in ImageExts}

\* The image files of the images directory.
ImageFiles == {f \in ImageNames : images[f] # NoFile}

\* The entries of a list of directory entries that are image files.
ImagesAmong(entries) == {i \in 1..Len(entries) : entries[i] \in ImageFiles}

\* The thumbnail directory can be used: nothing but a directory is at its
\* path.
ThumbsDirUsable == thumbsDir # "file"

\* C9: when saving a thumbnail fails, or saving it and copying the original
\* both fail, the run goes on: the call returns, the image has its event,
\* the images after it are handled, and timeline.html is written with one
\* event for every image; after a failed save with a successful copy the
\* thumbnail is the copy of the original, and a failed copy is logged after
\* the warning of the failed save.
C9_ThumbnailFailureDoesNotAbort ==
  ThumbsDirUsable =>
    /\ status # "error"
    /\ pc = "collect"
         => Len(events) + Cardinality(ImagesAmong(todo)) = Cardinality(ImageFiles)
    /\ \A f \in Catalogue :
         /\ <<"copy", f>> \in log => <<"thumbnail", f>> \in log
         /\ <<"thumbnail", f>> \in log
              => \E i \in 1..Len(events) : NameOf(events[i]) = f
         /\ (<<"thumbnail", f>> \in log /\ <<"copy", f>> \notin log)
              => (thumbs[f] # NoFile /\ thumbs[f][1] = "image")
    /\ RunCompleted
         => /\ html.exists
            /\ html.events = events
            /\ Len(events) = Cardinality(ImageFiles)
            /\ \A f \in ImageFiles : \E i \in 1..Len(events) : NameOf(events[i]) = f

\* A completed run in which the save and the copy failed for one image, and
\* an image scanned after it got its thumbnail and its event.
C9_Witness ==
  /\ RunCompleted
  /\ html.exists
  /\ \E f \in ImageFiles : \E g \in ImageFiles :
       /\ <<"copy", f>> \in log
       /\ StrLess(f, g)
       /\ <<"thumbnail", g>> \notin log
       /\ thumbs[g] # NoFile
       /\ \E i \in 1..Len(html.events) : NameOf(html.events[i]) = g
       /\ \E i \in 1..Len(html.events) : NameOf(html.events[i]) = f

\* ------------------------------------------------------------------ C10

\* C10: when the save and the copy both failed for an image, no file is at
\* images/thumbs/<filename> after ensure_thumbnail has returned.
C10_FailedThumbnailLeavesNoFile ==
  \A f \in Catalogue : <<"copy", f>> \in log => thumbs[f] = NoFile

\* ------------------------------------------------------------------ C11

\* A step that ends a run with the list collect_events returned.
RunEnds == pc = "collect" /\ pc' = "idle" /\ status' = "ok"

\* C11: a run started while the images directory is missing ends in that
\* very step with the fatal error: it collects no event and visits no entry,
\* the thumbnail directory and the thumbnails stay absent, and timeline.html
\* stays as it was, absent or with the page an earlier run wrote.
C11_MissingImagesDirIsFatal ==
  [][(runs' = runs + 1 /\ imagesDir # "dir")
       => /\ pc' = "idle"
          /\ status' = "error"
          /\ events' = <<>>
          /\ todo' = <<>>
          /\ thumbsDir' = "absent"
          /\ \A f \in Album : thumbs'[f] = NoFile
          /\ html' = html]_vars

\* The second run found the images directory removed and stopped; the page
\* of the first run, with its events, is still there.
C11_Witness ==
  /\ runs = 2
  /\ imagesDir = "absent"
  /\ status = "error"
  /\ pc = "idle"
  /\ events = <<>>
  /\ html.exists
  /\ Len(html.events) > 0

\* ------------------------------------------------------------------ C12

\* The name ends with the extension, letters compared without their case.
EndsWithFold(name, ext) ==
  /\ Len(name) >= Len(ext)
  /\ \A i \in 1..Len(ext) : Lower(name[Len(name) - Len(ext) + i]) = ext[i]

\* The regular files of the images directory with an accepted extension.
Accepted ==
  {f \in Album :
     /\ images[f] # NoFile
     /\ images[f][1] # "dir"
     /\ \/ EndsWithFold(f, <<".", "j", "p", "g">>)
        \/ EndsWithFold(f, <<".", "j", "p", "e", "g">>)
        \/ EndsWithFold(f, <<".", "p", "n", "g">>)}

\* C12: after a first run over an images directory that exists and holds no
\* accepted image file, the run has not ended as a success and there is no
\* timeline.html.
C12_NoImagesWritesNothing ==
  (pc = "idle" /\ runs = 1 /\ imagesDir = "dir" /\ Accepted = {})
    => (status # "ok" /\ ~html.exists)

\* ------------------------------------------------------------------ C13

\* The events of a list that were made from the file name.
EventsOf(evs, f) == {i \in 1..Len(evs) : evs[i].full_image = <<"images", f>>}

\* C13: the list a run returns has exactly one event for every accepted
\* image file of the images directory and no other event (none for a
\* subdirectory, for the thumbnail directory or a thumbnail in it, for a
\* sidecar); the event of <filename> has image images/thumbs/<filename>,
\* full_image images/<filename>, the stem as file_label and an empty
\* description.
C13_OneEventPerImageFile ==
  (RunCompleted /\ imagesDir = "dir")
    => /\ Len(events) = Cardinality(Accepted)
       /\ \A f \in Accepted : Cardinality(EventsOf(events, f)) = 1
       /\ \A i \in 1..Len(events) :
            \E f \in Accepted :
              /\ events[i].full_image = <<"images", f>>
              /\ events[i].image = <<"images", "thumbs", f>>
              /\ events[i].file_label = StemOf(f)
              /\ events[i].description = <<>>

\* A second run has completed over a directory with a subdirectory named
\* like an image, a sidecar, the thumbnails of the first run and an image
\* with an upper-case extension.
C13_Witness ==
  /\ RunCompleted
  /\ runs = 2
  /\ images[AlbumDir] # NoFile
  /\ \E f \in Album : images[f] # NoFile /\ images[f][1] \in {"text", "jxl"}
  /\ \E f \in Accepted : thumbs[f] # NoFile /\ suffix(f) # lower(suffix(f))
  /\ Len(events) = 1

\* ------------------------------------------------------------------ C14

\* The date the parser gives each file name of the album.
AlbumDates == [f \in Album |-> parse_date_from_filename(f).dt]

\* C14: in the list a run returns, two events of the same date, and two
\* events without a date, are in the ascending order of their file names.
C14_TiesKeepNameOrder ==
  RunCompleted =>
    \A i \in 1..Len(events) : \A j \in (i + 1)..Len(events) :
      AlbumDates[NameOf(events[i])] = AlbumDates[NameOf(events[j])]
        => StrLess(NameOf(events[i]), NameOf(events[j]))

\* A completed run with two events of one date followed by an event without
\* a date.
C14_Witness ==
  /\ RunCompleted
  /\ Len(events) = 3
  /\ AlbumDates[NameOf(events[1])] # NoDate
  /\ AlbumDates[NameOf(events[1])] = AlbumDates[NameOf(events[2])]
  /\ NameOf(events[1]) # NameOf(events[2])
  /\ AlbumDates[NameOf(events[3])] = NoDate

\* ------------------------------------------------------------------ C15

\* The bytes of a text file read as UTF-8 text.
RECURSIVE TextOf(_)
TextOf(bytes) ==
  IF bytes = <<>> THEN <<>>
  ELSE (IF Head(bytes) = BadByte THEN <<>> ELSE <<Head(bytes)>>) \o TextOf(Tail(bytes))

\* The file of that name is in the images directory.
Present(name) == name \in Album /\ images[name] # NoFile

\* An event without what it takes from the sidecars.
WithoutSidecars(ev) == [ev EXCEPT !.text = <<>>, !.jxl_image = NoPath]

\* C15: in the list a run returns, the text of every event is the text of
\* images/<stem>.txt when that file exists and empty otherwise, and its
\* jxl_image is images/<stem>.jxl when that file exists and absent otherwise;
\* and when only sidecars were added or removed since the run before, the
\* list differs from the list of that run in these two fields at most.
C15_SidecarsByStem ==
  [][RunEnds
       => /\ \A i \in 1..Len(events') :
               LET s == StemOf(NameOf(events'[i]))
               IN /\ events'[i].text =
                       (IF Present(s \o TxtExt) THEN TextOf(images[s \o TxtExt][2])
                        ELSE <<>>)
                  /\ events'[i].jxl_image =
                       (IF Present(s \o JxlExt) THEN <<"images", s \o JxlExt>>
                        ELSE NoPath)
          /\ html.exists
               => /\ Len(events') = Len(html.events)
                  /\ \A i \in 1..Len(events') :
                       WithoutSidecars(events'[i]) = WithoutSidecars(html.events[i])]_vars

\* The loop of a later run is over: an event has another text than the page
\* of the run before gave it, its text has lost a byte that is no UTF-8, and
\* an event of another stem is in the list.
C15_Witness ==
  /\ pc = "collect"
  /\ todo = <<>>
  /\ html.exists
  /\ \E i \in 1..Len(events) : \E j \in 1..Len(events) :
       /\ StemOf(NameOf(events[i])) # StemOf(NameOf(events[j]))
       /\ events[i].text = <<"h", "i">>
       /\ images[StemOf(NameOf(events[i])) \o TxtExt][2] # <<"h", "i">>
       /\ events[j].text = <<>>
       /\ \E k \in 1..Len(html.events) :
            /\ NameOf(html.events[k]) = NameOf(events[i])
            /\ html.events[k].text = <<>>

\* ------------------------------------------------------------------ C16

\* C16: a run that ends writes timeline.html with the list it returns and
\* nothing else; when the images directory is as it was at the run before,
\* that list is the list of the run before, event by event.
C16_RerunSameEvents ==
  [][RunEnds
       => /\ html'.exists
          /\ html'.events = events'
          /\ html.exists => events' = html.events]_vars

\* The second run over a directory with several images has ended, the
\* thumbnails of the first run in place.
C16_Witness ==
  /\ RunCompleted
  /\ runs = 2
  /\ Len(events) >= 2
  /\ html.events = events
  /\ \A i \in 1..Len(events) : thumbs[NameOf(events[i])] # NoFile

\* ------------------------------------------------------------------ C17

\* C17: the string build_html returns is the template with the font rules
\* of the font files that exist (the comment when there are none) in the
\* place of the font placeholder and the JSON serialization of the event list
\* in the place of the events placeholder, all other text as it is in the
\* template.
C17_OnlyPlaceholdersReplaced ==
  rendered # NoPage
    => rendered =
         TemplateHead
           \o (IF fonts = {} THEN NoFontsComment ELSE font_face_css_if_present(fonts))
           \o TemplateMiddle
           \o json_dumps(events)
           \o TemplateTail

\* ------------------------------------------------------------------ C18

\* The entries of images/binder whose names end like an image, in any case
\* of letters.
BinderAccepted ==
  {f \in binderDir.entries :
     \/ EndsWithFold(f, <<".", "p", "n", "g">>)
     \/ EndsWithFold(f, <<".", "j", "p", "g">>)
     \/ EndsWithFold(f, <<".", "j", "p", "e", "g">>)
     \/ EndsWithFold(f, <<".", "g", "i", "f">>)
     \/ EndsWithFold(f, <<".", "w", "e", "b", "p">>)}

\* C18: once binder.py has run over images/binder, binder.html exists; the
\* array its script reads holds exactly the entries of images/binder whose
\* names end, in any case of letters, in .png, .jpg, .jpeg, .gif or .webp,
\* each once, in ascending order of the names; the maximum of its slider is
\* the number of these entries less 2, and 0 in the place of a negative
\* number; without such entries the array is empty and the maximum is 0.
C18_BinderPageAlwaysWritten ==
  (binderDir.exists /\ runs > 0)
    => /\ binderHtml.exists
       /\ LET imgs == JsArray(binderHtml.images)
          IN /\ {imgs[i] : i \in 1..Len(imgs)} = BinderAccepted
             /\ Len(imgs) = Cardinality(BinderAccepted)
             /\ \A i \in 1..Len(imgs) : \A j \in (i + 1)..Len(imgs) :
                  StrLess(imgs[i], imgs[j])
             /\ binderHtml.max >= 0
             /\ binderHtml.max = (IF Len(imgs) >= 2 THEN Len(imgs) - 2 ELSE 0)
             /\ BinderAccepted = {} => (imgs = <<>> /\ binderHtml.max = 0)

\* binder.py has run over a directory that holds entries but no image: the
\* page is written, with an empty array and a slider maximum of 0.
C18_Witness ==
  /\ binderDir.exists
  /\ runs > 0
  /\ binderDir.entries # {}
  /\ BinderAccepted = {}
  /\ binderHtml.exists
  /\ binderHtml.images = <<"[", "]">>
  /\ binderHtml.max = 0

\* ------------------------------------------------------------------ C19

\* The spreads of a binder of these images, in their order: the first spread
\* (nothing on the left, image 0 on the right), then images 1 and 2, images
\* 3 and 4, and so on, the right page of the last one empty when the images
\* run out.
SpreadsOf(imgs) ==
  <<<<<<>>, IF imgs = <<>> THEN <<>> ELSE basePath \o imgs[1]>>>>
    \o [k \in 1..(Len(imgs) \div 2) |->
          <<basePath \o imgs[2 * k],
            IF 2 * k + 1 <= Len(imgs) THEN basePath \o imgs[2 * k + 1] ELSE <<>>>>]

\* The two pages the binder shows.
Shown(p) == <<p.leftPage, p.rightPage>>

\* The spread a page shows is one of the spreads of its images, and has an
\* image unless there is no image at all.
ShowsSpread(p) ==
  /\ \E k \in 1..Len(SpreadsOf(p.images)) : Shown(p) = SpreadsOf(p.images)[k]
  /\ p.images # <<>> => Shown(p) # <<<<>>, <<>>>>

\* The place of the spread a page shows among the spreads of its images.
SpreadIndex(p) ==
  CHOOSE k \in 1..Len(SpreadsOf(p.images)) : Shown(p) = SpreadsOf(p.images)[k]

\* C19: once the cover is open the binder shows one of the spreads of its
\* images, never two empty pages; Next shows the spread after the one shown,
\* and the same spread when the last one is shown; Prev shows the spread
\* before the one shown, and the same spread when the first one is shown.
C19_SpreadsCoverImages ==
  [][binderPage'.open
       => /\ ShowsSpread(binderPage')
          /\ (NextSpread /\ binderPage.open)
               => SpreadIndex(binderPage') =
                    Min(SpreadIndex(binderPage) + 1,
                        Len(SpreadsOf(binderPage.images)))
          /\ (PrevSpread /\ binderPage.open)
               => SpreadIndex(binderPage') =
                    (IF SpreadIndex(binderPage) = 1 THEN 1
                     ELSE SpreadIndex(binderPage) - 1)]_vars

\* ------------------------------------------------------------------ C20

\* The body has exactly one theme class, which is high-contrast when the
\* contrast setting is on and no other time.
OneThemeClass(page) ==
  /\ Cardinality(page.bodyClasses \cap {"theme-dark", "theme-light", "high-contrast"}) = 1
  /\ "high-contrast" \in page.bodyClasses <=> page.a11y.contrast

\* C20: after every step of the timeline page (its load, a click on one of
\* its accessibility controls) the body has exactly one of the classes
\* theme-dark, theme-light and high-contrast, high-contrast exactly when the
\* contrast setting is on; and a click on the theme button while the
\* contrast setting is on leaves the light setting and the stored item as
\* they are.
C20_OneThemeClass ==
  [][/\ OneThemeClass(timelinePage')
     /\ (ClickTheme /\ timelinePage.a11y.contrast)
          => /\ timelinePage'.a11y.light = timelinePage.a11y.light
             /\ a11yStore' = a11yStore]_vars

\* High contrast was switched on over the light theme: the light setting is
\* on, the body has the class high-contrast alone, the theme button is
\* locked, and the settings are stored.
C20_Witness ==
  /\ timelinePage.loaded
  /\ timelinePage.a11y.light
  /\ timelinePage.a11y.contrast
  /\ timelinePage.bodyClasses = {"high-contrast"}
  /\ timelinePage.themeDisabled
  /\ a11yStore.item = [kind |-> "object", value |-> timelinePage.a11y]
  /\ timelinePage.a11y.scale = 180

\* ------------------------------------------------------------------ C21

\* C21: whenever the open binder shows a spread other than the first, the
\* index of its left page is odd and less than the number of images, so that
\* the spread is one of those Next and Prev show.
C21_SliderSelectsNextPrevSpreads ==
  (binderPage.open /\ ~binderPage.firstSpread)
    => /\ binderPage.currentIndex % 2 = 1
       /\ binderPage.currentIndex < Len(binderPage.images)

\* ------------------------------------------------------------------ C22

\* C22: whenever the full-screen overlay is visible, the source of its image
\* is the one the most recent call of openFullscreen was given: no cleanup
\* timer of an earlier close has cleared it.
C22_VisibleOverlayKeepsSource ==
  overlay.visible => (overlay.src = overlay.opened /\ overlay.src # <<>>)

\* The overlay was closed and then opened on another image than the first
\* one, and it is visible while a cleanup of an earlier close is pending.
C22_Witness ==
  /\ overlay.visible
  /\ overlay.msgHidden
  /\ overlay.timers = 1
  /\ html.events # <<>>
  /\ overlay.src # Src(html.events[1].full_image)
  /\ overlay.src = overlay.opened

\* ------------------------------------------------------------------ C23

\* The thumbnails of a year whose load or error event has arrived, in a state
\* of the year navigation.
SettledOf(nav, year) ==
  {i \in EntriesOf(html.events, year) : nav.thumbnails[i] # "pending"}

\* The pill of a year has lost nav-pill-disabled.
PillEnabled(nav, year) == year \in DOMAIN nav.pills /\ ~nav.pills[year].disabled

\* C23: after every step of the page the pill of each year is enabled exactly
\* when the thumbnails of all events of that year have settled, by load or by
\* error; a pill becomes enabled only in a step that settles a thumbnail of
\* its own year, and an enabled pill stays enabled as long as the page is not
\* loaded anew.
C23_PillEnabledWhenYearSettled ==
  [][\A year \in YearsOf(html.events) :
       /\ PillEnabled(yearNav', year)
            <=> SettledOf(yearNav', year) = EntriesOf(html.events, year)
       /\ (~PillEnabled(yearNav, year) /\ PillEnabled(yearNav', year))
            => \E i \in EntriesOf(html.events, year) :
                 /\ yearNav.thumbnails[i] = "pending"
                 /\ yearNav'.thumbnails[i] # "pending"
       /\ (PillEnabled(yearNav, year) /\ ThumbnailSettles)
            => PillEnabled(yearNav', year)]_vars

\* A year of two events is enabled, one of its thumbnails having loaded and
\* the other failed, while the pill of another year, whose thumbnail is
\* pending, is disabled.
C23_Witness ==
  \E year \in YearsOf(html.events) : \E other \in YearsOf(html.events) :
    /\ year # other
    /\ Cardinality(EntriesOf(html.events, year)) = 2
    /\ PillEnabled(yearNav, year)
    /\ {yearNav.thumbnails[i] : i \in EntriesOf(html.events, year)} = {"load", "error"}
    /\ other \in DOMAIN yearNav.pills
    /\ yearNav.pills[other].disabled
    /\ SettledOf(yearNav, other) = {}

\* ------------------------------------------------------------------ C24

\* C24: when a run has completed, the image of every event of its list is
\* the path of a file that exists in images/thumbs.
C24_EveryEventHasItsThumbnail ==
  RunCompleted =>
    \A i \in 1..Len(events) :
      /\ events[i].image = <<"images", "thumbs", NameOf(events[i])>>
      /\ thumbsDir = "dir"
      /\ thumbs[NameOf(events[i])] # NoFile

====
